---- MODULE Spec2Model ----
(***************************************************************************)
(* Model of the FamiliAR patient view (src/Patient_View/ContentView.swift): *)
(* the QuizViewModel session state machine, its option generator           *)
(* (buildOptions) and the ContentView question flow; and of the voice       *)
(* recorder of the caregiver's upload form                                 *)
(* (src/src/components/AudioRecorder.tsx).                                 *)
(*                                                                         *)
(* Swift optionals are sequences of length at most one: None is <<>>,      *)
(* Some(x) is <<x>>.  currentIndex is 0-based as in the source; TLA+       *)
(* sequences are 1-based, so the current record is items[currentIndex+1].  *)
(***************************************************************************)
EXTENDS Integers, Sequences, FiniteSets, TLC

VARIABLES
    \* QuizViewModel (@Published fields, ContentView.swift:77-92)
    items, currentIndex, score, hasAnswered, selectedOption, isCorrect,
    showResults, questionType, options,
    \* the process stopped on a Swift runtime trap (array index out of range)
    crashed,
    \* history: the handler that ran last, its argument, and the phase of the
    \* session it was invoked in
    lastOp,
    \* inputs and result of the last stand-alone call of buildOptions or of
    \* speak, and the value of the local `decoys` of buildOptions when its
    \* while loop ended
    genIn, genOut, genDecoys,
    \* AudioRecorder: its props, React state and refs, the MediaRecorder, and
    \* what the closure of the running startRecording sees
    recorder,
    \* QuizViewModel: download status and the in-memory cache (ContentView.swift:89-92)
    isDownloadingImage, downloadError, localFileCache,
    \* the cache directory: the names of the files that exist with a non-zero size,
    \* and of those that exist with size zero
    files, emptyFiles,
    \* history: for each image url, the file url the first call of
    \* localFileURLForCurrentImage that returned one returned
    resolved,
    \* ContentView (@State fields, ContentView.swift:323-335)
    didStart, showQuizUI, qlURL, autoCloseTask, audioPlayer, fetchError,
    \* the identity of the question entered last (by Start, Next or Restart)
    entry,
    \* the running invocations of runPreviewThenSpeakThenRevealQuiz and
    \* presentCurrentImageForNSeconds, the sleeping countdown tasks, and the
    \* detached speak tasks
    tasks, timers, speeches

vmVars == <<items, currentIndex, score, hasAnswered, selectedOption, isCorrect,
            showResults, questionType, options>>
genVars == <<genIn, genOut, genDecoys, recorder>>
cacheVars == <<isDownloadingImage, downloadError, localFileCache, files, emptyFiles, resolved>>
viewVars == <<didStart, showQuizUI, qlURL, autoCloseTask, audioPlayer, fetchError, entry>>
taskVars == <<tasks, timers, speeches>>
uiVars == <<cacheVars, viewVars, taskVars>>
vars == <<vmVars, crashed, lastOp, genVars, uiVars>>

----------------------------------------------------------------------------
(* Bounds of the model *)

\* rows the data source returns at most
MaxPhotos == 3
\* rows the data source returns at most in the question flow
MaxUiPhotos == 2
\* invocations of the flow functions running at once
MaxTasks == 1
\* countdown tasks sleeping at once
MaxTimers == 1
\* speech requests in flight at once
MaxSpeeches == 1
\* the same, where flows overlap
MaxConcTasks == 2
MaxConcTimers == 2

\* the values of the maxDuration prop of the recorder
MaxDuration == 4
\* interval ticks a recording is followed for
MaxElapsed == 6

(* Program constants *)

\* AudioRecorder: `maxDuration = 15`
DefaultMaxDuration == 15

\* AudioRecorder as mounted: useState / useRef initial values
RecorderIdle(maxDuration) ==
    [maxDuration |-> maxDuration, isRecording |-> FALSE, recordingTime |-> 0,
     audioBlob |-> FALSE, error |-> FALSE, media |-> "none", timerRef |-> FALSE,
     closureIsRecording |-> FALSE, elapsed |-> 0, delivered |-> FALSE]

\* Array(shuffled.prefix(7))
QuizSize == 7
\* buildOptions returns exactly this many options
OptionCount == 3
\* uniquePool.shuffled().prefix(2); while decoys.count < 2
DecoyCount == 2

----------------------------------------------------------------------------
(* Values *)

None == <<>>
Some(x) == <<x>>

QuestionTypes == {"person", "location", "event"}

\* let fallback = ["Unknown", "Not sure", "I don’t remember"]
\* (the source spells the last one with a typographic apostrophe)
Fallback == <<"Unknown", "Not sure", "I don't remember">>

Range(s) == {s[i] : i \in 1..Len(s)}

Min(a, b) == IF a < b THEN a ELSE b

\* s.prefix(n)
Prefix(s, n) == SubSeq(s, 1, Min(n, Len(s)))

\* s.shuffled(): every ordering of s is a possible outcome
Shuffles(s) == {[i \in 1..Len(s) |-> s[f[i]]] : f \in Permutations(1..Len(s))}

\* Array(Set(...)).shuffled(): every enumeration of the set S
ShufflesOfSet(S) ==
    {f \in [1..Cardinality(S) -> S] : \A i, j \in 1..Cardinality(S) : i # j => f[i] # f[j]}

\* s.trimmingCharacters(in: .whitespacesAndNewlines), on the strings of the model
Trim(s) ==
    CASE s = " " -> ""
      [] s = " Bob " -> "Bob"
      [] s = " https://cdn/a/p2.heic " -> "https://cdn/a/p2.heic"
      [] OTHER -> s

\* The rows (MemoryPhoto) the data source may return
Row(id, name, loc, evt, url, voice) ==
    [id |-> id, person_name |-> name, location |-> loc, event |-> evt,
     image_url |-> url, voice_id |-> voice]

PhotoRows ==
    { Row(1, "Alice", Some("Park"), Some("Birthday"), "https://cdn/a/p1.heic", Some("v1")),
      Row(2, " Bob ", Some("Park"), None, " https://cdn/a/p2.heic ", None),
      Row(3, "", Some(" "), Some("Not sure"), "https://cdn/b/p1.heic", Some(" ")),
      Row(4, "Carol", None, None, " ", None) }

\* a table of four rows whose names and events are pairwise distinct
WideTable ==
    << Row(1, "Alice", Some("Park"), Some("Birthday"), "https://cdn/a/p1.heic", Some("v1")),
       Row(2, " Bob ", Some("Park"), None, " https://cdn/a/p2.heic ", None),
       Row(3, "", Some(" "), Some("Not sure"), "https://cdn/b/p1.heic", Some(" ")),
       Row(5, "Carol", Some("Lake"), Some("Picnic"), "https://cdn/a/p5.heic", None) >>

\* a table of five rows: the names are Alice, Bob, Carol, Bob and none
ScenarioTable ==
    << Row(1, "Alice", Some("Park"), Some("Birthday"), "https://cdn/a/p1.heic", Some("v1")),
       Row(2, " Bob ", Some("Park"), None, " https://cdn/a/p2.heic ", None),
       Row(5, "Carol", Some("Lake"), Some("Picnic"), "https://cdn/a/p5.heic", None),
       Row(6, "Bob", Some("Lake"), Some("Picnic"), "https://cdn/a/p6.heic", None),
       Row(3, "", Some(" "), Some("Not sure"), "https://cdn/b/p1.heic", Some(" ")) >>

\* a table of nine rows, eight of them with an image url
LongTable ==
    << Row(1, "Alice", Some("Park"), Some("Birthday"), "https://cdn/a/p1.heic", Some("v1")),
       Row(2, " Bob ", Some("Park"), None, " https://cdn/a/p2.heic ", None),
       Row(4, "Carol", None, None, " ", None),
       Row(5, "Carol", Some("Lake"), Some("Picnic"), "https://cdn/a/p5.heic", None),
       Row(6, "Bob", Some("Lake"), Some("Picnic"), "https://cdn/a/p6.heic", None),
       Row(3, "", Some(" "), Some("Not sure"), "https://cdn/b/p1.heic", Some(" ")),
       Row(8, "Alice", Some("Lake"), None, "https://cdn/a/p1.heic", None),
       Row(9, "Carol", Some("Park"), Some("Birthday"), "https://cdn/a/p2.heic", Some("v1")),
       Row(10, "Alice", None, Some("Picnic"), "https://cdn/a/p5.heic", None) >>

\* what fetchMemoryPhotos may return: at most MaxPhotos distinct rows, any order
PhotoLists ==
    UNION { {s \in [1..n -> PhotoRows] : \A i, j \in 1..n : i # j => s[i] # s[j]}
            : n \in 0..MaxPhotos }

----------------------------------------------------------------------------
(* QuizViewModel: pure parts *)

OrEmpty(opt) == IF opt = None THEN "" ELSE opt[1]

\* the MemoryItem built from one row (loop body of loadMemoriesFromSupabase)
MapPhoto(p) ==
    LET name == Trim(p.person_name)
        loc == Trim(OrEmpty(p.location))
        evt == Trim(OrEmpty(p.event))
        url == Trim(p.image_url)
        voice == IF p.voice_id = None THEN None ELSE Some(Trim(p.voice_id[1]))
    IN [id |-> p.id,
        personName |-> IF name = "" THEN "Unknown" ELSE name,
        location |-> IF loc = "" THEN "Unknown" ELSE loc,
        event |-> IF evt = "" THEN "Unknown" ELSE evt,
        imageURL |-> url,
        voiceID |-> IF voice = Some("") THEN None ELSE voice]

\* mutant: the loop without its `guard !url.isEmpty else { continue }`
RECURSIVE Mapped_KeepsBlankUrl(_)
Mapped_KeepsBlankUrl(photos) ==
    IF photos = <<>> THEN <<>>
    ELSE <<MapPhoto(Head(photos))>> \o Mapped_KeepsBlankUrl(Tail(photos))

\* `mapped`: rows with an empty image url are skipped
RECURSIVE Mapped(_)
Mapped(photos) ==
    IF photos = <<>> THEN <<>>
    ELSE LET p == Head(photos)
             rest == Mapped(Tail(photos))
         IN IF Trim(p.image_url) = "" THEN rest ELSE <<MapPhoto(p)>> \o rest

\* Array(mapped.shuffled().prefix(7))
Chosen(mapped) == {Prefix(sh, QuizSize) : sh \in Shuffles(mapped)}

\* the field a question type asks for
FieldOf(type, item) ==
    CASE type = "person" -> item.personName
      [] type = "location" -> item.location
      [] type = "event" -> item.event

\* correctAnswer, for the record at index idx of its
CorrectOf(type, its, idx) == FieldOf(type, its[idx + 1])

\* mutant: the correct value is not filtered out of the pool
UniquePool_KeepsCorrect(type, current, all) ==
    LET pool == {FieldOf(type, all[i]) : i \in {j \in 1..Len(all) : all[j].id # current.id}}
    IN {v \in pool : v # ""}

\* uniquePool of buildOptions
UniquePool(type, current, all) ==
    LET correct == FieldOf(type, current)
        pool == {FieldOf(type, all[i]) : i \in {j \in 1..Len(all) : all[j].id # current.id}}
    IN {v \in pool : v # "" /\ v # correct}

\* mutant: the loop does not look at the decoys it already holds
RECURSIVE FallbackLoop_NoCollisionCheck(_, _)
FallbackLoop_NoCollisionCheck(decoys, correct) ==
    IF Len(decoys) >= DecoyCount THEN {decoys}
    ELSE UNION { IF extra # correct
                 THEN FallbackLoop_NoCollisionCheck(Append(decoys, extra), correct)
                 ELSE {decoys}
                 : extra \in Range(Fallback) }

\* the while loop of buildOptions: fallback.randomElement() may return any
\* element; a pick that is already a decoy or equals correct ends the loop
RECURSIVE FallbackLoop(_, _)
FallbackLoop(decoys, correct) ==
    IF Len(decoys) >= DecoyCount THEN {decoys}
    ELSE UNION { IF extra \notin Range(decoys) /\ extra # correct
                 THEN FallbackLoop(Append(decoys, extra), correct)
                 ELSE {decoys}
                 : extra \in Range(Fallback) }

\* mutant: the padding with "Unknown" is left out
PadOptions_NoPadding(opts) == Prefix(opts, OptionCount)

\* the last two lines of buildOptions: prefix(3), or padding with "Unknown"
PadOptions(opts) ==
    IF Len(opts) >= OptionCount THEN Prefix(opts, OptionCount)
    ELSE opts \o [i \in 1..(OptionCount - Len(opts)) |-> "Unknown"]

\* `decoys` of buildOptions after its while loop: the possible values
DecoysOf(type, current, all) ==
    LET correct == FieldOf(type, current)
        firstDecoys == {Prefix(sh, DecoyCount) : sh \in ShufflesOfSet(UniquePool(type, current, all))}
    IN UNION {FallbackLoop(d, correct) : d \in firstDecoys}

\* ([correct] + decoys).shuffled(), cut or padded to three
OptionsWith(correct, decoys) == {PadOptions(o) : o \in Shuffles(<<correct>> \o decoys)}

\* buildOptions(for:current:from:): the set of its possible results
BuildOptions(type, current, all) ==
    UNION {OptionsWith(FieldOf(type, current), d) : d \in DecoysOf(type, current, all)}

----------------------------------------------------------------------------
(* QuizViewModel: operations on the session state *)

\* regenerateQuestionAndOptions, for the record list its and index idx
Regenerate(its, idx) ==
    IF its = <<>>
    THEN UNCHANGED <<questionType, options>>
    ELSE \E t \in QuestionTypes :
            /\ questionType' = t
            /\ options' \in BuildOptions(t, its[idx + 1], its)

\* resetQuizState
ResetQuizState ==
    /\ currentIndex' = 0
    /\ score' = 0
    /\ hasAnswered' = FALSE
    /\ selectedOption' = None
    /\ isCorrect' = FALSE
    /\ showResults' = FALSE

\* loadMemoriesFromSupabase, the data source returning photos
VmLoad(photos) ==
    LET mapped == Mapped(photos)
    IN IF mapped = <<>>
       THEN UNCHANGED vmVars
       ELSE \E chosen \in Chosen(mapped) :
               /\ items' = chosen
               /\ ResetQuizState
               /\ Regenerate(chosen, 0)

\* the rotations of s: some of the orders s.shuffled() can return
Rotations(s) ==
    {[i \in 1..Len(s) |-> s[((i + k - 1) % Len(s)) + 1]] : k \in 0..(Len(s) - 1)}

\* loadMemoriesFromSupabase, the data source returning photos and
\* mapped.shuffled() returning one of orders
VmLoadShuffled(photos, orders) ==
    LET mapped == Mapped(photos)
    IN IF mapped = <<>>
       THEN UNCHANGED vmVars
       ELSE \E sh \in orders :
               /\ items' = Prefix(sh, QuizSize)
               /\ ResetQuizState
               /\ Regenerate(Prefix(sh, QuizSize), 0)

\* loadMemoriesFromSupabase, the data source throwing
VmLoadFailed == UNCHANGED vmVars

\* mutant: select without its `guard !hasAnswered`
VmSelect_NoGuard(option) ==
    IF items = <<>>
    THEN /\ selectedOption' = Some(option)
         /\ crashed' = TRUE
         /\ UNCHANGED <<items, currentIndex, score, hasAnswered, isCorrect,
                        showResults, questionType, options>>
    ELSE LET correct == (option = CorrectOf(questionType, items, currentIndex))
         IN /\ selectedOption' = Some(option)
            /\ isCorrect' = correct
            /\ score' = IF correct THEN score + 1 ELSE score
            /\ hasAnswered' = TRUE
            /\ UNCHANGED <<items, currentIndex, showResults, questionType, options, crashed>>

\* mutant: select counts every first answer, right or wrong
VmSelect_AlwaysScores(option) ==
    IF hasAnswered
    THEN UNCHANGED <<vmVars, crashed>>
    ELSE IF items = <<>>
    THEN /\ selectedOption' = Some(option)
         /\ crashed' = TRUE
         /\ UNCHANGED <<items, currentIndex, score, hasAnswered, isCorrect,
                        showResults, questionType, options>>
    ELSE /\ selectedOption' = Some(option)
         /\ isCorrect' = (option = CorrectOf(questionType, items, currentIndex))
         /\ score' = score + 1
         /\ hasAnswered' = TRUE
         /\ UNCHANGED <<items, currentIndex, showResults, questionType, options, crashed>>

\* select(option:)
VmSelect(option) ==
    IF hasAnswered
    THEN UNCHANGED <<vmVars, crashed>>
    ELSE IF items = <<>>
    THEN \* correctAnswer reads items[currentIndex] of an empty array
         /\ selectedOption' = Some(option)
         /\ crashed' = TRUE
         /\ UNCHANGED <<items, currentIndex, score, hasAnswered, isCorrect,
                        showResults, questionType, options>>
    ELSE LET correct == (option = CorrectOf(questionType, items, currentIndex))
         IN /\ selectedOption' = Some(option)
            /\ isCorrect' = correct
            /\ score' = IF correct THEN score + 1 ELSE score
            /\ hasAnswered' = TRUE
            /\ UNCHANGED <<items, currentIndex, showResults, questionType, options, crashed>>

\* mutant: next clears the answer flags before it tests for the last index
VmNext_ClearsAtEnd ==
    IF items = <<>>
    THEN UNCHANGED vmVars
    ELSE IF ~(currentIndex < Len(items) - 1)
    THEN /\ showResults' = TRUE
         /\ hasAnswered' = FALSE
         /\ selectedOption' = None
         /\ isCorrect' = FALSE
         /\ UNCHANGED <<items, currentIndex, score, questionType, options>>
    ELSE /\ currentIndex' = currentIndex + 1
         /\ hasAnswered' = FALSE
         /\ selectedOption' = None
         /\ isCorrect' = FALSE
         /\ Regenerate(items, currentIndex + 1)
         /\ UNCHANGED <<items, score, showResults>>

\* mutant: next advances without regenerating the question
VmNext_KeepsOptions ==
    IF items = <<>>
    THEN UNCHANGED vmVars
    ELSE IF ~(currentIndex < Len(items) - 1)
    THEN /\ showResults' = TRUE
         /\ UNCHANGED <<items, currentIndex, score, hasAnswered, selectedOption,
                        isCorrect, questionType, options>>
    ELSE /\ currentIndex' = currentIndex + 1
         /\ hasAnswered' = FALSE
         /\ selectedOption' = None
         /\ isCorrect' = FALSE
         /\ UNCHANGED <<items, score, showResults, questionType, options>>

\* mutant: next regenerates the question before it advances the index
VmNext_RegeneratesFirst ==
    IF items = <<>>
    THEN UNCHANGED vmVars
    ELSE IF ~(currentIndex < Len(items) - 1)
    THEN /\ showResults' = TRUE
         /\ UNCHANGED <<items, currentIndex, score, hasAnswered, selectedOption,
                        isCorrect, questionType, options>>
    ELSE /\ currentIndex' = currentIndex + 1
         /\ hasAnswered' = FALSE
         /\ selectedOption' = None
         /\ isCorrect' = FALSE
         /\ Regenerate(items, currentIndex)
         /\ UNCHANGED <<items, score, showResults>>

\* mutant: next clears the selection but not hasAnswered
VmNext_KeepsAnswered ==
    IF items = <<>>
    THEN UNCHANGED vmVars
    ELSE IF ~(currentIndex < Len(items) - 1)
    THEN /\ showResults' = TRUE
         /\ UNCHANGED <<items, currentIndex, score, hasAnswered, selectedOption,
                        isCorrect, questionType, options>>
    ELSE /\ currentIndex' = currentIndex + 1
         /\ selectedOption' = None
         /\ isCorrect' = FALSE
         /\ Regenerate(items, currentIndex + 1)
         /\ UNCHANGED <<items, score, showResults, hasAnswered>>

\* mutant: next at the last question goes back to the first one
VmNext_WrapsAround ==
    IF items = <<>>
    THEN UNCHANGED vmVars
    ELSE /\ currentIndex' = (currentIndex + 1) % Len(items)
         /\ hasAnswered' = FALSE
         /\ selectedOption' = None
         /\ isCorrect' = FALSE
         /\ Regenerate(items, (currentIndex + 1) % Len(items))
         /\ UNCHANGED <<items, score, showResults>>

\* mutant: next advances without `isCorrect = false`
VmNext_KeepsCorrectness ==
    IF items = <<>>
    THEN UNCHANGED vmVars
    ELSE IF ~(currentIndex < Len(items) - 1)
    THEN /\ showResults' = TRUE
         /\ UNCHANGED <<items, currentIndex, score, hasAnswered, selectedOption,
                        isCorrect, questionType, options>>
    ELSE /\ currentIndex' = currentIndex + 1
         /\ hasAnswered' = FALSE
         /\ selectedOption' = None
         /\ Regenerate(items, currentIndex + 1)
         /\ UNCHANGED <<items, score, showResults, isCorrect>>

\* next()
VmNext ==
    IF items = <<>>
    THEN UNCHANGED vmVars
    ELSE IF ~(currentIndex < Len(items) - 1)
    THEN /\ showResults' = TRUE
         /\ UNCHANGED <<items, currentIndex, score, hasAnswered, selectedOption,
                        isCorrect, questionType, options>>
    ELSE /\ currentIndex' = currentIndex + 1
         /\ hasAnswered' = FALSE
         /\ selectedOption' = None
         /\ isCorrect' = FALSE
         /\ Regenerate(items, currentIndex + 1)
         /\ UNCHANGED <<items, score, showResults>>

\* mutant: restart takes the first question to have index 1
VmRestart_OneBased ==
    /\ score' = 0
    /\ currentIndex' = 1
    /\ hasAnswered' = FALSE
    /\ selectedOption' = None
    /\ isCorrect' = FALSE
    /\ showResults' = FALSE
    /\ Regenerate(items, 0)
    /\ UNCHANGED items

\* mutant: restart regenerates the question before it resets the index
VmRestart_RegeneratesFirst ==
    /\ score' = 0
    /\ currentIndex' = 0
    /\ hasAnswered' = FALSE
    /\ selectedOption' = None
    /\ isCorrect' = FALSE
    /\ showResults' = FALSE
    /\ Regenerate(items, currentIndex)
    /\ UNCHANGED items

\* mutant: restart keeps the score
VmRestart_KeepsScore ==
    /\ currentIndex' = 0
    /\ hasAnswered' = FALSE
    /\ selectedOption' = None
    /\ isCorrect' = FALSE
    /\ showResults' = FALSE
    /\ Regenerate(items, 0)
    /\ UNCHANGED <<items, score>>

\* restart()
VmRestart ==
    /\ score' = 0
    /\ currentIndex' = 0
    /\ hasAnswered' = FALSE
    /\ selectedOption' = None
    /\ isCorrect' = FALSE
    /\ showResults' = FALSE
    /\ Regenerate(items, 0)
    /\ UNCHANGED items


----------------------------------------------------------------------------
(* The view model driven through its interface *)

\* the states of the session: NotLoaded, Active(index), Complete
Phase ==
    IF items = <<>> THEN "NotLoaded"
    ELSE IF showResults THEN "Complete"
    ELSE "Active"

Op(name, arg, phase) == [name |-> name, arg |-> arg, phase |-> phase]

Record(name, arg) == lastOp' = Op(name, arg, Phase)

\* the strings select may be called with: a displayed option or any other
SelectArgs == Range(options) \cup {"Someone else"}

Init ==
    /\ items = <<>>
    /\ currentIndex = 0
    /\ score = 0
    /\ hasAnswered = FALSE
    /\ selectedOption = None
    /\ isCorrect = FALSE
    /\ showResults = FALSE
    /\ questionType = "person"
    /\ options = <<>>
    /\ crashed = FALSE
    /\ lastOp = Op("init", None, "NotLoaded")
    /\ genIn = None
    /\ genOut = None
    /\ genDecoys = None
    /\ recorder = RecorderIdle(DefaultMaxDuration)
    /\ isDownloadingImage = FALSE
    /\ downloadError = None
    /\ localFileCache = [r \in {} |-> ""]
    /\ files = {}
    /\ emptyFiles = {}
    /\ resolved = [r \in {} |-> ""]
    /\ didStart = FALSE
    /\ showQuizUI = FALSE
    /\ qlURL = None
    /\ autoCloseTask = None
    /\ audioPlayer = None
    /\ fetchError = None
    /\ entry = 0
    /\ tasks = {}
    /\ timers = {}
    /\ speeches = {}

Load ==
    /\ ~crashed
    /\ items = <<>>
    /\ \E photos \in PhotoLists : VmLoad(photos)
    /\ Record("load", None)
    /\ UNCHANGED <<crashed, genVars, uiVars>>

LoadFailed ==
    /\ ~crashed
    /\ items = <<>>
    /\ VmLoadFailed
    /\ Record("loadFailed", None)
    /\ UNCHANGED <<crashed, genVars, uiVars>>

Select ==
    /\ ~crashed
    /\ \E o \in SelectArgs :
          /\ VmSelect(o)
          /\ Record("select", Some(o))
    /\ UNCHANGED <<genVars, uiVars>>

Next ==
    /\ ~crashed
    /\ VmNext
    /\ Record("next", None)
    /\ UNCHANGED <<crashed, genVars, uiVars>>

Restart ==
    /\ ~crashed
    /\ VmRestart
    /\ Record("restart", None)
    /\ UNCHANGED <<crashed, genVars, uiVars>>

NextStep == Load \/ LoadFailed \/ Select \/ Next \/ Restart

Spec == Init /\ [][NextStep]_vars

----------------------------------------------------------------------------
(* ContentView: the question flow *)

\* QuestionType.spokenPrompt(for:)
SpokenPrompt(type) ==
    CASE type = "person" -> "Do you remember who is in this picture?"
      [] type = "location" -> "Do you remember where this picture was taken?"
      [] type = "event" -> "Do you remember what was happening in this picture?"

\* URL(string:) succeeds on the image urls of the model
URLParses(remote) == remote # "not a url"

\* remoteURL.lastPathComponent, on the urls of the model
LastPathComponent(remote) ==
    CASE remote = "https://cdn/a/p1.heic" -> "p1.heic"
      [] remote = "https://cdn/a/p2.heic" -> "p2.heic"
      [] remote = "https://cdn/b/p1.heic" -> "p1.heic"
      [] remote = "https://cdn/a/p5.heic" -> "p5.heic"
      [] remote = "https://cdn/a/p6.heic" -> "p6.heic"
      [] OTHER -> ""

\* RemoteCache.cachedFileURL(for:): the file in the caches directory
CachedFileURL(remote) == LastPathComponent(remote)

\* private let ELEVENLABS_API_KEY = "<KEY>"
ApiKeyIsEmpty == FALSE

\* private let DEFAULT_VOICE_ID: String? = nil
DefaultVoiceID == None

\* the least positive number not in used
FreeId(used) == CHOOSE n \in 1..(Cardinality(used) + 1) : n \notin used /\ \A m \in 1..(n - 1) : m \in used

AudioEntries == IF audioPlayer = None THEN {} ELSE {audioPlayer[1].entry}

\* the identity given to the question entered next: one no task, countdown,
\* speech request or player still refers to
NewEntry ==
    FreeId({entry} \cup {t.entry : t \in tasks} \cup {t.entry : t \in timers}
           \cup {sp.entry : sp \in speeches} \cup AudioEntries)

\* Task { await runPreviewThenSpeakThenRevealQuiz() } / Task { await presentCurrentImageForNSeconds() }
NewTask(kind, e) ==
    [id |-> FreeId({t.id : t \in tasks}), kind |-> kind, entry |-> e, pc |-> "begin",
     remote |-> None, local |-> None, fetched |-> FALSE, hit |-> FALSE]

\* fewer than nt flow invocations are running
CanSpawn(nt) == Cardinality(tasks) < nt

\* autoCloseTask?.cancel()
CancelAutoClose ==
    timers' = {IF Some(x.id) = autoCloseTask THEN [x EXCEPT !.cancelled = TRUE] ELSE x : x \in timers}

\* audioPlayer?.stop()
StopAudio ==
    audioPlayer' = IF audioPlayer = None THEN None
                   ELSE Some([audioPlayer[1] EXCEPT !.playing = FALSE])

(***************************************************************************)
(* The steps of a flow function.  A step runs the source from one          *)
(* suspension point to the next one at which another task or handler can   *)
(* change what the function reads afterwards:                              *)
(*   TaskBegin      cancel / stop, localFileURLForCurrentImage up to the   *)
(*                  download, ensureDownloaded up to the download          *)
(*   TaskDownload   the download and the move of the file                  *)
(*   TaskResumeOk   localFileURLForCurrentImage after ensureDownloaded     *)
(*   TaskResumeFail its catch branch, and the caller's else branch         *)
(*   TaskPresent    qlURL = local, the read of the prompt, the two Tasks   *)
(***************************************************************************)

\* mutant: neither the in-memory cache nor the cache directory is consulted
AfterLookup_AlwaysDownloads(t) ==
    IF items = <<>> THEN [t EXCEPT !.pc = "gotNil"]
    ELSE LET remoteStr == items[currentIndex + 1].imageURL
         IN IF ~URLParses(remoteStr)
            THEN [t EXCEPT !.pc = "resumeFail", !.remote = Some(remoteStr)]
            ELSE [t EXCEPT !.pc = "download", !.remote = Some(remoteStr), !.fetched = TRUE]

\* mutant: a file of size zero counts as downloaded
AfterLookup_AcceptsEmptyFile(t) ==
    IF items = <<>> THEN [t EXCEPT !.pc = "gotNil"]
    ELSE LET remoteStr == items[currentIndex + 1].imageURL
             dest == CachedFileURL(remoteStr)
         IN IF remoteStr \in DOMAIN localFileCache
            THEN [t EXCEPT !.pc = "gotLocal", !.remote = Some(remoteStr),
                           !.local = Some(localFileCache[remoteStr]), !.hit = TRUE]
            ELSE IF ~URLParses(remoteStr)
            THEN [t EXCEPT !.pc = "resumeFail", !.remote = Some(remoteStr)]
            ELSE IF dest \in files \cup emptyFiles
            THEN [t EXCEPT !.pc = "resumeOk", !.remote = Some(remoteStr), !.local = Some(dest)]
            ELSE [t EXCEPT !.pc = "download", !.remote = Some(remoteStr), !.fetched = TRUE]

\* the pc after localFileURLForCurrentImage reached its first suspension, or returned
\* (no flow starts without data: the Start button is disabled then)
AfterLookup(t) ==
    IF items = <<>> THEN [t EXCEPT !.pc = "gotNil"]
    ELSE LET remoteStr == items[currentIndex + 1].imageURL
             dest == CachedFileURL(remoteStr)
         IN IF remoteStr \in DOMAIN localFileCache
            THEN [t EXCEPT !.pc = "gotLocal", !.remote = Some(remoteStr),
                           !.local = Some(localFileCache[remoteStr]), !.hit = TRUE]
            ELSE IF ~URLParses(remoteStr)
            THEN [t EXCEPT !.pc = "resumeFail", !.remote = Some(remoteStr)]
            ELSE IF dest \in files
            THEN [t EXCEPT !.pc = "resumeOk", !.remote = Some(remoteStr), !.local = Some(dest)]
            ELSE [t EXCEPT !.pc = "download", !.remote = Some(remoteStr), !.fetched = TRUE]

\* the history of returned file urls once the call t2 is where it is
Resolved(t2) ==
    IF t2.pc = "gotLocal" /\ t2.remote[1] \notin DOMAIN resolved
    THEN [r \in DOMAIN resolved \cup {t2.remote[1]} |->
             IF r = t2.remote[1] THEN t2.local[1] ELSE resolved[r]]
    ELSE resolved

\* the first lines of runPreviewThenSpeakThenRevealQuiz and of
\* presentCurrentImageForNSeconds, and localFileURLForCurrentImage up to the
\* download of ensureDownloaded (a call of kind "ensure" is a call of
\* localFileURLForCurrentImage on its own)
TaskBegin(t) ==
    /\ t.pc = "begin"
    /\ IF t.kind = "ensure" THEN UNCHANGED timers ELSE CancelAutoClose
    /\ resolved' = Resolved(AfterLookup(t))
    /\ IF t.kind = "run" THEN StopAudio ELSE UNCHANGED audioPlayer
    /\ tasks' = (tasks \ {t}) \cup {AfterLookup(t)}
    /\ isDownloadingImage' =
          IF AfterLookup(t).pc \in {"resumeFail", "resumeOk", "download"} THEN TRUE
          ELSE isDownloadingImage
    /\ UNCHANGED <<vmVars, crashed, lastOp, genVars, downloadError, localFileCache, files, emptyFiles,
                   speeches, didStart, fetchError, showQuizUI, qlURL, autoCloseTask, entry>>

\* URLSession.shared.download, `try? removeItem(at: dest)` and moveItem:
\* the file is stored, or the download throws, or the download returns, the
\* file at dest is removed and the move throws
TaskDownload(t) ==
    /\ t.pc = "download"
    /\ LET dest == CachedFileURL(t.remote[1])
       IN \/ /\ files' = files \cup {dest}
             /\ emptyFiles' = emptyFiles \ {dest}
             /\ tasks' = (tasks \ {t}) \cup {[t EXCEPT !.pc = "resumeOk", !.local = Some(dest)]}
          \/ /\ UNCHANGED <<files, emptyFiles>>
             /\ tasks' = (tasks \ {t}) \cup {[t EXCEPT !.pc = "resumeFail"]}
          \/ /\ files' = files \ {dest}
             /\ emptyFiles' = emptyFiles \ {dest}
             /\ tasks' = (tasks \ {t}) \cup {[t EXCEPT !.pc = "resumeFail"]}
    /\ UNCHANGED <<vmVars, crashed, lastOp, genVars, isDownloadingImage, downloadError,
                   localFileCache, resolved, viewVars, timers, speeches>>

\* localFileURLForCurrentImage after ensureDownloaded returned
TaskResumeOk(t) ==
    /\ t.pc = "resumeOk"
    /\ localFileCache' =
          [r \in DOMAIN localFileCache \cup {t.remote[1]} |->
              IF r = t.remote[1] THEN t.local[1] ELSE localFileCache[r]]
    /\ downloadError' = None
    /\ isDownloadingImage' = FALSE
    /\ tasks' = (tasks \ {t}) \cup {[t EXCEPT !.pc = "gotLocal"]}
    /\ resolved' = Resolved([t EXCEPT !.pc = "gotLocal"])
    /\ UNCHANGED <<vmVars, crashed, lastOp, genVars, files, emptyFiles, viewVars, timers, speeches>>

\* mutant: a failed fetch that would request the spoken prompt all the same
TaskResumeFail_Speaks(t) ==
    /\ t.pc = "resumeFail"
    /\ downloadError' = Some("Failed to download image.")
    /\ isDownloadingImage' = FALSE
    /\ showQuizUI' = IF t.kind = "run" THEN TRUE ELSE showQuizUI
    /\ IF /\ t.kind = "run"
          /\ items # <<>>
          /\ ~ApiKeyIsEmpty
          /\ (items[currentIndex + 1].voiceID # None \/ DefaultVoiceID # None)
       THEN speeches' = speeches \cup
               {[entry |-> t.entry, text |-> SpokenPrompt(questionType)]}
       ELSE UNCHANGED speeches
    /\ tasks' = tasks \ {t}
    /\ UNCHANGED <<vmVars, crashed, lastOp, genVars, localFileCache, files, emptyFiles, resolved,
                   timers, didStart, fetchError, qlURL, autoCloseTask, audioPlayer, entry>>

\* mutant: a failed fetch that would return without revealing the quiz
TaskResumeFail_StaysHidden(t) ==
    /\ t.pc = "resumeFail"
    /\ downloadError' = Some("Failed to download image.")
    /\ isDownloadingImage' = FALSE
    /\ tasks' = tasks \ {t}
    /\ UNCHANGED <<vmVars, crashed, lastOp, genVars, localFileCache, files, emptyFiles, resolved,
                   timers, speeches, didStart, fetchError, showQuizUI, qlURL, autoCloseTask,
                   audioPlayer, entry>>

\* localFileURLForCurrentImage after ensureDownloaded threw, and the else
\* branch of `guard let local`: the run reveals the quiz, the replay returns
TaskResumeFail(t) ==
    /\ t.pc = "resumeFail"
    /\ downloadError' = Some("Failed to download image.")
    /\ isDownloadingImage' = FALSE
    /\ showQuizUI' = IF t.kind = "run" THEN TRUE ELSE showQuizUI
    /\ tasks' = tasks \ {t}
    /\ UNCHANGED <<vmVars, crashed, lastOp, genVars, localFileCache, files, emptyFiles, resolved,
                   timers, speeches, didStart, fetchError, qlURL, autoCloseTask, audioPlayer, entry>>

\* speak(text:preferredVoiceID:) sends a request unless a guard returns
SpeechRequested(voice) ==
    ~ApiKeyIsEmpty /\ (IF voice # None THEN voice ELSE DefaultVoiceID) # None

\* a presentation that would request the spoken prompt for a replay as well
TaskPresent_ReplaySpeaks(t) ==
    /\ t.pc = "gotLocal"
    /\ t.kind \in {"run", "replay"}
    /\ items # <<>>
    /\ qlURL' = t.local
    /\ LET tid == FreeId({x.id : x \in timers})
       IN /\ timers' = timers \cup
                {[id |-> tid, kind |-> IF t.kind = "run" THEN "reveal" ELSE "replay",
                  entry |-> t.entry, cancelled |-> FALSE]}
          /\ autoCloseTask' = Some(tid)
    /\ IF SpeechRequested(items[currentIndex + 1].voiceID)
       THEN speeches' = speeches \cup
               {[entry |-> t.entry, text |-> SpokenPrompt(questionType)]}
       ELSE UNCHANGED speeches
    /\ tasks' = tasks \ {t}
    /\ UNCHANGED <<vmVars, crashed, lastOp, genVars, cacheVars,
                   didStart, fetchError, showQuizUI, audioPlayer, entry>>

\* qlURL = local; for the run the read of the prompt and Task.detached { speak };
\* autoCloseTask = Task { sleep; ... }
TaskPresent(t) ==
    /\ t.pc = "gotLocal"
    /\ t.kind \in {"run", "replay"}
    /\ items # <<>>
    /\ qlURL' = t.local
    /\ LET tid == FreeId({x.id : x \in timers})
       IN /\ timers' = timers \cup
                {[id |-> tid, kind |-> IF t.kind = "run" THEN "reveal" ELSE "replay",
                  entry |-> t.entry, cancelled |-> FALSE]}
          /\ autoCloseTask' = Some(tid)
    /\ IF t.kind = "run" /\ SpeechRequested(items[currentIndex + 1].voiceID)
       THEN speeches' = speeches \cup
               {[entry |-> t.entry, text |-> SpokenPrompt(questionType)]}
       ELSE UNCHANGED speeches
    /\ tasks' = tasks \ {t}
    /\ UNCHANGED <<vmVars, crashed, lastOp, genVars, cacheVars,
                   didStart, fetchError, showQuizUI, audioPlayer, entry>>

\* the system purges a file of the caches directory
FileRemoved(f) ==
    /\ files' = files \ {f}
    /\ emptyFiles' = emptyFiles \ {f}
    /\ UNCHANGED <<vmVars, crashed, lastOp, genVars, isDownloadingImage, downloadError,
                   localFileCache, resolved, viewVars, taskVars>>

\* a file of the caches directory is cut to size zero
FileTruncated(f) ==
    /\ files' = files \ {f}
    /\ emptyFiles' = emptyFiles \cup {f}
    /\ UNCHANGED <<vmVars, crashed, lastOp, genVars, isDownloadingImage, downloadError,
                   localFileCache, resolved, viewVars, taskVars>>

\* a caller awaits vm.localFileURLForCurrentImage()
EnsureCall ==
    /\ tasks' = tasks \cup {NewTask("ensure", entry)}
    /\ UNCHANGED <<vmVars, crashed, lastOp, genVars, cacheVars, viewVars, timers, speeches>>

\* localFileURLForCurrentImage hands the file url to its caller
EnsureReturn(t) ==
    /\ t.pc = "gotLocal"
    /\ t.kind = "ensure"
    /\ tasks' = tasks \ {t}
    /\ UNCHANGED <<vmVars, crashed, lastOp, genVars, cacheVars, viewVars, timers, speeches>>

\* a countdown that would hold the reveal back until no synthesis is in flight
TimerElapsed_WaitsForSpeech(x) ==
    /\ ~x.cancelled
    /\ speeches = {}
    /\ qlURL' = None
    /\ showQuizUI' = IF x.kind = "reveal" THEN TRUE ELSE showQuizUI
    /\ timers' = timers \ {x}
    /\ UNCHANGED <<vmVars, crashed, lastOp, genVars, cacheVars, tasks, speeches,
                   didStart, fetchError, autoCloseTask, audioPlayer, entry>>

\* the body of a countdown task whose Task.sleep ran for previewDuration
TimerElapsed(x) ==
    /\ ~x.cancelled
    /\ qlURL' = None
    /\ showQuizUI' = IF x.kind = "reveal" THEN TRUE ELSE showQuizUI
    /\ timers' = timers \ {x}
    /\ UNCHANGED <<vmVars, crashed, lastOp, genVars, cacheVars, tasks, speeches,
                   didStart, fetchError, autoCloseTask, audioPlayer, entry>>

\* the body of a countdown task whose Task.sleep threw on cancellation
\* (`try?` drops the error, Task.isCancelled is true)
TimerCancelled(x) ==
    /\ x.cancelled
    /\ showQuizUI' = IF x.kind = "reveal" THEN TRUE ELSE showQuizUI
    /\ timers' = timers \ {x}
    /\ UNCHANGED <<vmVars, crashed, lastOp, genVars, cacheVars, tasks, speeches,
                   didStart, fetchError, qlURL, autoCloseTask, audioPlayer, entry>>

\* TTSManager.fetchSpeechData answered 2xx and the player started
SpeechPlays(sp) ==
    /\ audioPlayer' = Some([entry |-> sp.entry, playing |-> TRUE])
    /\ speeches' = speeches \ {sp}
    /\ UNCHANGED <<vmVars, crashed, lastOp, genVars, cacheVars, tasks, timers,
                   didStart, fetchError, showQuizUI, qlURL, autoCloseTask, entry>>

\* TTSManager.fetchSpeechData or AVAudioPlayer(data:) threw
SpeechFails(sp) ==
    /\ speeches' = speeches \ {sp}
    /\ UNCHANGED <<vmVars, crashed, lastOp, genVars, cacheVars, viewVars, tasks, timers>>

\* the player reaches the end of its audio
AudioEnds ==
    /\ audioPlayer # None
    /\ audioPlayer[1].playing
    /\ StopAudio
    /\ UNCHANGED <<vmVars, crashed, lastOp, genVars, cacheVars, taskVars,
                   didStart, fetchError, showQuizUI, qlURL, autoCloseTask, entry>>

\* what the data source may return in the question flow
UiPhotoLists == {s \in PhotoLists : Len(s) <= MaxUiPhotos /\ \A i \in 1..Len(s) : s[i].id \in {1, 2, 4}}

\* fetchError after fetchAllMemoriesOnLaunch, the view model holding its
FetchErrorFor(its) ==
    IF its = <<>> THEN Some("No memories found or fetch failed.") ELSE None

\* mutant: fetchAllMemoriesOnLaunch without its `if !vm.hasData`
UiLoadOf_Silent(photos) ==
    /\ ~crashed
    /\ items = <<>>
    /\ ~didStart
    /\ VmLoad(photos)
    /\ fetchError' = None
    /\ Record("load", Some(photos))
    /\ UNCHANGED <<crashed, genVars, cacheVars, taskVars,
                   didStart, showQuizUI, qlURL, autoCloseTask, audioPlayer, entry>>

\* fetchAllMemoriesOnLaunch, the data source returning photos
UiLoadOf(photos) ==
    /\ ~crashed
    /\ items = <<>>
    /\ ~didStart
    /\ VmLoad(photos)
    /\ fetchError' = FetchErrorFor(items')
    /\ Record("load", Some(photos))
    /\ UNCHANGED <<crashed, genVars, cacheVars, taskVars,
                   didStart, showQuizUI, qlURL, autoCloseTask, audioPlayer, entry>>

\* .task { await fetchAllMemoriesOnLaunch() }
UiLoad == \E photos \in UiPhotoLists : UiLoadOf(photos)

\* fetchAllMemoriesOnLaunch, the data source returning the long table and
\* the shuffle one of its rotations
UiLoadLong ==
    /\ ~crashed
    /\ items = <<>>
    /\ ~didStart
    /\ VmLoadShuffled(LongTable, Rotations(Mapped(LongTable)))
    /\ fetchError' = FetchErrorFor(items')
    /\ Record("load", Some(LongTable))
    /\ UNCHANGED <<crashed, genVars, cacheVars, taskVars,
                   didStart, showQuizUI, qlURL, autoCloseTask, audioPlayer, entry>>

\* fetchAllMemoriesOnLaunch, the data source throwing
UiLoadFailed ==
    /\ ~crashed
    /\ items = <<>>
    /\ ~didStart
    /\ VmLoadFailed
    /\ fetchError' = FetchErrorFor(items')
    /\ Record("loadFailed", None)
    /\ UNCHANGED <<crashed, genVars, cacheVars, taskVars,
                   didStart, showQuizUI, qlURL, autoCloseTask, audioPlayer, entry>>

\* StartScreenView onStart (the button is disabled without data)
StartBtn ==
    /\ ~crashed
    /\ ~didStart
    /\ items # <<>>
    /\ didStart' = TRUE
    /\ entry' = NewEntry
    /\ tasks' = tasks \cup {NewTask("run", NewEntry)}
    /\ Record("start", None)
    /\ UNCHANGED <<vmVars, crashed, genVars, cacheVars, timers, speeches,
                   showQuizUI, qlURL, autoCloseTask, audioPlayer, fetchError>>

QuizVisible == didStart /\ ~showResults /\ showQuizUI

\* AnswerButton action (the buttons are disabled once answered)
SelectBtn ==
    /\ ~crashed
    /\ QuizVisible
    /\ ~hasAnswered
    /\ \E o \in Range(options) :
          /\ VmSelect(o)
          /\ Record("select", Some(o))
    /\ UNCHANGED <<genVars, uiVars>>

\* Button("See again") (disabled while vm.isDownloadingImage)
SeeAgainBtn ==
    /\ ~crashed
    /\ QuizVisible
    /\ ~isDownloadingImage
    /\ tasks' = tasks \cup {NewTask("replay", entry)}
    /\ Record("seeAgain", None)
    /\ UNCHANGED <<vmVars, crashed, genVars, cacheVars, viewVars, timers, speeches>>

\* the Next / See Score button (disabled until answered)
NextBtn ==
    /\ ~crashed
    /\ QuizVisible
    /\ hasAnswered
    /\ VmNext
    /\ showQuizUI' = FALSE
    /\ entry' = NewEntry
    /\ tasks' = tasks \cup {NewTask("run", NewEntry)}
    /\ Record("next", None)
    /\ UNCHANGED <<crashed, genVars, cacheVars, timers, speeches,
                   didStart, fetchError, qlURL, autoCloseTask, audioPlayer>>

\* ResultsView onRestart
RestartBtn ==
    /\ ~crashed
    /\ didStart
    /\ showResults
    /\ VmRestart
    /\ showQuizUI' = FALSE
    /\ entry' = NewEntry
    /\ tasks' = tasks \cup {NewTask("run", NewEntry)}
    /\ Record("restart", None)
    /\ UNCHANGED <<crashed, genVars, cacheVars, timers, speeches,
                   didStart, fetchError, qlURL, autoCloseTask, audioPlayer>>

\* the random choices of regenerateQuestionAndOptions are fixed in the
\* question flow: the type drawn is person, the loop of buildOptions reaches
\* two decoys and the last shuffle returns its input
FlowOptions(type, current, all) ==
    <<FieldOf(type, current)>> \o
        (CHOOSE d \in DecoysOf(type, current, all) : Len(d) = DecoyCount)

FlowDraw ==
    items # <<>> =>
        /\ questionType = "person"
        /\ options = FlowOptions(questionType, items[currentIndex + 1], items)

\* the flow t can start a countdown and a speech request within nx countdowns
\* and ns speech requests
CanPresent(t, nx, ns) ==
    /\ Cardinality(timers) < nx
    /\ (t.kind = "run" /\ items # <<>> /\ SpeechRequested(items[currentIndex + 1].voiceID))
          => Cardinality(speeches) < ns

NextUI ==
    \/ (UiLoad /\ FlowDraw')
    \/ (CanSpawn(MaxTasks) /\ StartBtn)
    \/ SelectBtn
    \/ (CanSpawn(MaxTasks) /\ SeeAgainBtn)
    \/ (CanSpawn(MaxTasks) /\ NextBtn /\ FlowDraw')
    \/ (CanSpawn(MaxTasks) /\ RestartBtn /\ FlowDraw')
    \/ \E t \in tasks : TaskBegin(t)
    \/ \E t \in tasks : TaskDownload(t)
    \/ \E t \in tasks : TaskResumeOk(t)
    \/ \E t \in tasks : TaskResumeFail(t)
    \/ \E t \in tasks : CanPresent(t, MaxTimers, MaxSpeeches) /\ TaskPresent(t)
    \/ \E x \in timers : TimerElapsed(x)
    \/ \E x \in timers : TimerCancelled(x)
    \/ \E sp \in speeches : SpeechPlays(sp)
    \/ \E sp \in speeches : SpeechFails(sp)
    \/ AudioEnds

SpecUI == Init /\ [][NextUI]_vars

\* The scheduling of the flow: a task that can run does run, a download and
\* a synthesis request return, a countdown ends (its sleep elapses, or throws
\* at once when it is cancelled).  Nothing is assumed about the user.
FairUI ==
    /\ WF_vars(\E t \in tasks : TaskBegin(t))
    /\ WF_vars(\E t \in tasks : TaskDownload(t))
    /\ WF_vars(\E t \in tasks : TaskResumeOk(t))
    /\ WF_vars(\E t \in tasks : TaskResumeFail(t))
    /\ WF_vars(\E t \in tasks : CanPresent(t, MaxTimers, MaxSpeeches) /\ TaskPresent(t))
    /\ WF_vars(\E x \in timers : TimerElapsed(x))
    /\ WF_vars(\E x \in timers : TimerCancelled(x))
    /\ WF_vars(\E sp \in speeches : SpeechPlays(sp) \/ SpeechFails(sp))

FairSpecUI == Init /\ [][NextUI]_vars /\ FairUI

----------------------------------------------------------------------------
(* The launch: fetchAllMemoriesOnLaunch with every result of at most        *)
(* MaxPhotos rows or with the long table, and the Start button              *)

NextLoad ==
    \/ \E photos \in PhotoLists : UiLoadOf(photos)
    \/ UiLoadLong
    \/ UiLoadFailed
    \/ (CanSpawn(MaxTasks) /\ StartBtn)

SpecLoad == Init /\ [][NextLoad]_vars

----------------------------------------------------------------------------
(* The question flow with overlapping flow functions: one record without a *)
(* voice is loaded, and the buttons are pressed while earlier flows run,   *)
(* up to the results screen                                                *)

ConcData == Len(items) <= 1 /\ \A i \in 1..Len(items) : items[i].voiceID = None

NextConc ==
    \/ (UiLoad /\ FlowDraw' /\ ConcData')
    \/ (CanSpawn(MaxConcTasks) /\ StartBtn)
    \/ SelectBtn
    \/ (CanSpawn(MaxConcTasks) /\ SeeAgainBtn)
    \/ (CanSpawn(MaxConcTasks) /\ NextBtn /\ FlowDraw')
    \/ \E t \in tasks : TaskBegin(t)
    \/ \E t \in tasks : TaskDownload(t)
    \/ \E t \in tasks : TaskResumeOk(t)
    \/ \E t \in tasks : TaskResumeFail(t)
    \/ \E t \in tasks : CanPresent(t, MaxConcTimers, MaxSpeeches) /\ TaskPresent(t)
    \/ \E x \in timers : TimerElapsed(x)
    \/ \E x \in timers : TimerCancelled(x)

SpecConc == Init /\ [][NextConc]_vars

----------------------------------------------------------------------------
(* The question flow with overlapping flow functions over two questions:   *)
(* two records without a voice are loaded, and 'See again' and 'Next' are  *)
(* pressed while earlier flows run                                         *)

PairTable ==
    << Row(2, " Bob ", Some("Park"), None, " https://cdn/a/p2.heic ", None),
       Row(5, "Carol", Some("Lake"), Some("Picnic"), "https://cdn/a/p5.heic", None) >>

PairItems == Mapped(PairTable)

InitPair ==
    /\ items = PairItems
    /\ currentIndex = 0
    /\ score = 0
    /\ hasAnswered = FALSE
    /\ selectedOption = None
    /\ isCorrect = FALSE
    /\ showResults = FALSE
    /\ questionType = "person"
    /\ options = FlowOptions("person", PairItems[1], PairItems)
    /\ crashed = FALSE
    /\ lastOp = Op("load", None, "NotLoaded")
    /\ genIn = None
    /\ genOut = None
    /\ genDecoys = None
    /\ recorder = RecorderIdle(DefaultMaxDuration)
    /\ isDownloadingImage = FALSE
    /\ downloadError = None
    /\ localFileCache = [r \in {} |-> ""]
    /\ files = {}
    /\ emptyFiles = {}
    /\ resolved = [r \in {} |-> ""]
    /\ didStart = FALSE
    /\ showQuizUI = FALSE
    /\ qlURL = None
    /\ autoCloseTask = None
    /\ audioPlayer = None
    /\ fetchError = None
    /\ entry = 0
    /\ tasks = {}
    /\ timers = {}
    /\ speeches = {}

NextPair ==
    \/ (CanSpawn(MaxConcTasks) /\ StartBtn)
    \/ SelectBtn
    \/ (CanSpawn(MaxConcTasks) /\ SeeAgainBtn)
    \/ (CanSpawn(MaxConcTasks) /\ NextBtn /\ FlowDraw')
    \/ \E t \in tasks : TaskBegin(t)
    \/ \E t \in tasks : TaskDownload(t)
    \/ \E t \in tasks : TaskResumeOk(t)
    \/ \E t \in tasks : TaskResumeFail(t)
    \/ \E t \in tasks : CanPresent(t, MaxConcTimers, MaxSpeeches) /\ TaskPresent(t)
    \/ \E x \in timers : TimerElapsed(x)
    \/ \E x \in timers : TimerCancelled(x)

SpecPair == InitPair /\ [][NextPair]_vars

----------------------------------------------------------------------------
(* localFileURLForCurrentImage called on its own: after a load of three     *)
(* rows (two of them share the last path component of their image url),    *)
(* callers await the function while next() and restart() move the index    *)

CacheTable ==
    << Row(1, "Alice", Some("Park"), Some("Birthday"), "https://cdn/a/p1.heic", Some("v1")),
       Row(2, " Bob ", Some("Park"), None, " https://cdn/a/p2.heic ", None),
       Row(3, "", Some(" "), Some("Not sure"), "https://cdn/b/p1.heic", Some(" ")) >>

CacheItems == Mapped(CacheTable)

InitCache ==
    /\ items = CacheItems
    /\ currentIndex = 0
    /\ score = 0
    /\ hasAnswered = FALSE
    /\ selectedOption = None
    /\ isCorrect = FALSE
    /\ showResults = FALSE
    /\ questionType = "person"
    /\ options = FlowOptions("person", CacheItems[1], CacheItems)
    /\ crashed = FALSE
    /\ lastOp = Op("load", None, "NotLoaded")
    /\ genIn = None
    /\ genOut = None
    /\ genDecoys = None
    /\ recorder = RecorderIdle(DefaultMaxDuration)
    /\ isDownloadingImage = FALSE
    /\ downloadError = None
    /\ localFileCache = [r \in {} |-> ""]
    /\ files = {}
    /\ emptyFiles = {}
    /\ resolved = [r \in {} |-> ""]
    /\ didStart = FALSE
    /\ showQuizUI = FALSE
    /\ qlURL = None
    /\ autoCloseTask = None
    /\ audioPlayer = None
    /\ fetchError = None
    /\ entry = 0
    /\ tasks = {}
    /\ timers = {}
    /\ speeches = {}

NextCache ==
    \/ (CanSpawn(MaxConcTasks) /\ EnsureCall)
    \/ \E t \in tasks : TaskBegin(t)
    \/ \E t \in tasks : TaskDownload(t)
    \/ \E t \in tasks : TaskResumeOk(t)
    \/ \E t \in tasks : TaskResumeFail(t)
    \/ \E t \in tasks : EnsureReturn(t)
    \/ (Next /\ FlowDraw')
    \/ (Restart /\ FlowDraw')

SpecCache == InitCache /\ [][NextCache]_vars

----------------------------------------------------------------------------
(* The same with a cache directory that the system purges or damages, after *)
(* a load of two rows, one of which has an image url that URL(string:)      *)
(* rejects                                                                  *)

StoreTable ==
    << Row(1, "Alice", Some("Park"), Some("Birthday"), "https://cdn/a/p1.heic", Some("v1")),
       Row(7, "Dan", Some("Lake"), None, "not a url", None) >>

StoreItems == Mapped(StoreTable)

\* what an earlier run of the app may have left in the caches directory
StoreLeftovers ==
    { [full |-> {}, empty |-> {}],
      [full |-> {"p1.heic"}, empty |-> {}],
      [full |-> {}, empty |-> {"p1.heic"}] }

InitStore ==
    /\ items = StoreItems
    /\ currentIndex = 0
    /\ score = 0
    /\ hasAnswered = FALSE
    /\ selectedOption = None
    /\ isCorrect = FALSE
    /\ showResults = FALSE
    /\ questionType = "person"
    /\ options = FlowOptions("person", StoreItems[1], StoreItems)
    /\ crashed = FALSE
    /\ lastOp = Op("load", None, "NotLoaded")
    /\ genIn = None
    /\ genOut = None
    /\ genDecoys = None
    /\ recorder = RecorderIdle(DefaultMaxDuration)
    /\ isDownloadingImage = FALSE
    /\ downloadError = None
    /\ localFileCache = [r \in {} |-> ""]
    /\ \E f \in StoreLeftovers :
          /\ files = f.full
          /\ emptyFiles = f.empty
    /\ resolved = [r \in {} |-> ""]
    /\ didStart = FALSE
    /\ showQuizUI = FALSE
    /\ qlURL = None
    /\ autoCloseTask = None
    /\ audioPlayer = None
    /\ fetchError = None
    /\ entry = 0
    /\ tasks = {}
    /\ timers = {}
    /\ speeches = {}

NextStore ==
    \/ (CanSpawn(MaxConcTasks) /\ EnsureCall)
    \/ \E t \in tasks : TaskBegin(t)
    \/ \E t \in tasks : TaskDownload(t)
    \/ \E t \in tasks : TaskResumeOk(t)
    \/ \E t \in tasks : TaskResumeFail(t)
    \/ \E t \in tasks : EnsureReturn(t)
    \/ (Next /\ FlowDraw')
    \/ (Restart /\ FlowDraw')
    \/ \E f \in files \cup emptyFiles : FileRemoved(f)
    \/ \E f \in files : FileTruncated(f)

SpecStore == InitStore /\ [][NextStore]_vars

----------------------------------------------------------------------------
(* The view model after a load of the four-row table, the shuffle having     *)
(* returned the rows in the order of the table                               *)

WideItems == Mapped(WideTable)

InitWide ==
    /\ items = WideItems
    /\ currentIndex = 0
    /\ score = 0
    /\ hasAnswered = FALSE
    /\ selectedOption = None
    /\ isCorrect = FALSE
    /\ showResults = FALSE
    /\ \E t \in QuestionTypes :
          /\ questionType = t
          /\ options \in BuildOptions(t, WideItems[1], WideItems)
    /\ crashed = FALSE
    /\ lastOp = Op("load", None, "NotLoaded")
    /\ genIn = None
    /\ genOut = None
    /\ genDecoys = None
    /\ recorder = RecorderIdle(DefaultMaxDuration)
    /\ isDownloadingImage = FALSE
    /\ downloadError = None
    /\ localFileCache = [r \in {} |-> ""]
    /\ files = {}
    /\ emptyFiles = {}
    /\ resolved = [r \in {} |-> ""]
    /\ didStart = FALSE
    /\ showQuizUI = FALSE
    /\ qlURL = None
    /\ autoCloseTask = None
    /\ audioPlayer = None
    /\ fetchError = None
    /\ entry = 0
    /\ tasks = {}
    /\ timers = {}
    /\ speeches = {}

NextWide == Select \/ Next \/ Restart

SpecWide == InitWide /\ [][NextWide]_vars

----------------------------------------------------------------------------
(* buildOptions called on its own *)

\* the record lists a load can produce
ItemLists == UNION {Chosen(Mapped(photos)) : photos \in PhotoLists}

\* the record lists buildOptions is called on: those of a load of at most
\* MaxPhotos rows, and the two larger tables in table order
GenItemLists == (ItemLists \ {<<>>}) \cup {WideItems, Mapped(ScenarioTable)}

InitGen ==
    /\ items = <<>>
    /\ currentIndex = 0
    /\ score = 0
    /\ hasAnswered = FALSE
    /\ selectedOption = None
    /\ isCorrect = FALSE
    /\ showResults = FALSE
    /\ questionType = "person"
    /\ options = <<>>
    /\ crashed = FALSE
    /\ lastOp = Op("init", None, "NotLoaded")
    /\ \E t \in QuestionTypes, all \in GenItemLists :
          \E i \in 1..Len(all) :
             genIn = Some([type |-> t, current |-> all[i], all |-> all])
    /\ genOut = None
    /\ genDecoys = None
    /\ recorder = RecorderIdle(DefaultMaxDuration)
    /\ isDownloadingImage = FALSE
    /\ downloadError = None
    /\ localFileCache = [r \in {} |-> ""]
    /\ files = {}
    /\ emptyFiles = {}
    /\ resolved = [r \in {} |-> ""]
    /\ didStart = FALSE
    /\ showQuizUI = FALSE
    /\ qlURL = None
    /\ autoCloseTask = None
    /\ audioPlayer = None
    /\ fetchError = None
    /\ entry = 0
    /\ tasks = {}
    /\ timers = {}
    /\ speeches = {}

Generate ==
    /\ genOut = None
    /\ LET correct == FieldOf(genIn[1].type, genIn[1].current)
       IN \E d \in DecoysOf(genIn[1].type, genIn[1].current, genIn[1].all) :
             \E o \in OptionsWith(correct, d) :
                /\ genDecoys' = Some(d)
                /\ genOut' = Some(o)
    /\ UNCHANGED <<vmVars, crashed, lastOp, genIn, recorder, uiVars>>

NextGen == Generate

SpecGen == InitGen /\ [][NextGen]_vars

----------------------------------------------------------------------------
(* speak called on its own *)

\* what URLSession.shared.data(for:) may produce: a response with a status
\* code, a response that is no HTTPURLResponse, or a thrown transport error
StatusCodes == {100, 199, 200, 201, 204, 299, 300, 301, 400, 401, 404, 429, 500, 503}

SpeechAnswers ==
    {[kind |-> "http", status |-> c] : c \in StatusCodes}
        \cup {[kind |-> "other", status |-> -1], [kind |-> "thrown", status |-> -1]}

\* mutant: fetchSpeechData that takes a redirect for a success
FetchSpeechData_AcceptsRedirects(answer) ==
    IF answer.kind = "http" /\ answer.status >= 200 /\ answer.status <= 399
    THEN Some("audio/mpeg")
    ELSE None

\* TTSManager.fetchSpeechData: the data of the answer, or None where it throws
FetchSpeechData(answer) ==
    IF answer.kind = "http" /\ answer.status >= 200 /\ answer.status <= 299
    THEN Some("audio/mpeg")
    ELSE None

\* speak(text:preferredVoiceID:), ELEVENLABS_API_KEY being empty or not:
\* whether a request is sent, the data fetchSpeechData returns, and whether
\* the player plays (AVAudioPlayer(data:) may throw on the data)
Speak(keyIsEmpty, preferredVoiceID, answer, playerThrows) ==
    IF keyIsEmpty
    THEN [requested |-> FALSE, data |-> None, played |-> FALSE]
    ELSE IF (IF preferredVoiceID # None THEN preferredVoiceID ELSE DefaultVoiceID) = None
    THEN [requested |-> FALSE, data |-> None, played |-> FALSE]
    ELSE LET data == FetchSpeechData(answer)
         IN [requested |-> TRUE, data |-> data, played |-> data # None /\ ~playerThrows]

InitTts ==
    /\ items = <<>>
    /\ currentIndex = 0
    /\ score = 0
    /\ hasAnswered = FALSE
    /\ selectedOption = None
    /\ isCorrect = FALSE
    /\ showResults = FALSE
    /\ questionType = "person"
    /\ options = <<>>
    /\ crashed = FALSE
    /\ lastOp = Op("init", None, "NotLoaded")
    /\ \E k \in BOOLEAN, v \in {None, Some("v1")}, a \in SpeechAnswers, x \in BOOLEAN :
          genIn = Some([keyIsEmpty |-> k, voice |-> v, answer |-> a, playerThrows |-> x])
    /\ genOut = None
    /\ genDecoys = None
    /\ recorder = RecorderIdle(DefaultMaxDuration)
    /\ isDownloadingImage = FALSE
    /\ downloadError = None
    /\ localFileCache = [r \in {} |-> ""]
    /\ files = {}
    /\ emptyFiles = {}
    /\ resolved = [r \in {} |-> ""]
    /\ didStart = FALSE
    /\ showQuizUI = FALSE
    /\ qlURL = None
    /\ autoCloseTask = None
    /\ audioPlayer = None
    /\ fetchError = None
    /\ entry = 0
    /\ tasks = {}
    /\ timers = {}
    /\ speeches = {}

Synthesize ==
    /\ genOut = None
    /\ genOut' = Some(Speak(genIn[1].keyIsEmpty, genIn[1].voice, genIn[1].answer,
                            genIn[1].playerThrows))
    /\ UNCHANGED <<vmVars, crashed, lastOp, genIn, genDecoys, recorder, uiVars>>

NextTts == Synthesize

SpecTts == InitTts /\ [][NextTts]_vars

----------------------------------------------------------------------------
(* The voice recorder (AudioRecorder.tsx) *)

\* mediaRecorder.stop() and its onstop handler: the blob is built, stored
\* and handed to onAudioRecorded
MediaStopped(r) ==
    [r EXCEPT !.media = "inactive", !.audioBlob = TRUE, !.delivered = TRUE]

\* mutant: stopRecording that reads no state of the render it was made in
StopRecording_NoStateTest(r, isRecording) ==
    IF r.media # "none"
    THEN [MediaStopped(r) EXCEPT !.isRecording = FALSE, !.timerRef = FALSE]
    ELSE r

\* stopRecording as made by a render whose state isRecording had the value
\* given: `if (mediaRecorderRef.current && isRecording) { ... }`
StopRecording(r, isRecording) ==
    IF r.media # "none" /\ isRecording
    THEN [MediaStopped(r) EXCEPT !.isRecording = FALSE, !.timerRef = FALSE]
    ELSE r

\* the Start Recording button (rendered while there is no blob and
\* isRecording is false): getUserMedia rejects, or the recorder and the
\* interval are started.  The interval callback keeps the stopRecording of
\* the render that made this startRecording.
StartRecording ==
    /\ ~recorder.audioBlob
    /\ ~recorder.isRecording
    /\ \/ recorder' = [recorder EXCEPT !.error = TRUE]
       \/ recorder' = [recorder EXCEPT !.error = FALSE, !.media = "recording",
                                       !.isRecording = TRUE, !.recordingTime = 0,
                                       !.timerRef = TRUE, !.elapsed = 0,
                                       !.closureIsRecording = recorder.isRecording]
    /\ UNCHANGED <<vmVars, crashed, lastOp, genIn, genOut, genDecoys, uiVars>>

\* one second passes: the recording grows, and the interval callback, if
\* the interval is set, runs the updater of setRecordingTime
Tick ==
    /\ recorder.timerRef \/ recorder.media = "recording"
    /\ recorder.elapsed < MaxElapsed
    /\ LET r1 == IF recorder.media = "recording"
                 THEN [recorder EXCEPT !.elapsed = recorder.elapsed + 1]
                 ELSE recorder
           newTime == r1.recordingTime + 1
       IN recorder' =
             IF ~r1.timerRef THEN r1
             ELSE IF newTime >= r1.maxDuration
             THEN [StopRecording(r1, r1.closureIsRecording) EXCEPT !.recordingTime = r1.maxDuration]
             ELSE [r1 EXCEPT !.recordingTime = newTime]
    /\ UNCHANGED <<vmVars, crashed, lastOp, genIn, genOut, genDecoys, uiVars>>

\* the Stop button (rendered while there is no blob and isRecording is true)
StopBtn ==
    /\ ~recorder.audioBlob
    /\ recorder.isRecording
    /\ recorder' = StopRecording(recorder, recorder.isRecording)
    /\ UNCHANGED <<vmVars, crashed, lastOp, genIn, genOut, genDecoys, uiVars>>

\* the Remove button (rendered while there is a blob): removeAudio
RemoveAudio ==
    /\ recorder.audioBlob
    /\ recorder' = [recorder EXCEPT !.audioBlob = FALSE, !.recordingTime = 0,
                                    !.delivered = FALSE]
    /\ UNCHANGED <<vmVars, crashed, lastOp, genIn, genOut, genDecoys, uiVars>>

InitRec ==
    /\ items = <<>>
    /\ currentIndex = 0
    /\ score = 0
    /\ hasAnswered = FALSE
    /\ selectedOption = None
    /\ isCorrect = FALSE
    /\ showResults = FALSE
    /\ questionType = "person"
    /\ options = <<>>
    /\ crashed = FALSE
    /\ lastOp = Op("init", None, "NotLoaded")
    /\ genIn = None
    /\ genOut = None
    /\ genDecoys = None
    /\ \E d \in 1..MaxDuration : recorder = RecorderIdle(d)
    /\ isDownloadingImage = FALSE
    /\ downloadError = None
    /\ localFileCache = [r \in {} |-> ""]
    /\ files = {}
    /\ emptyFiles = {}
    /\ resolved = [r \in {} |-> ""]
    /\ didStart = FALSE
    /\ showQuizUI = FALSE
    /\ qlURL = None
    /\ autoCloseTask = None
    /\ audioPlayer = None
    /\ fetchError = None
    /\ entry = 0
    /\ tasks = {}
    /\ timers = {}
    /\ speeches = {}

NextRec == StartRecording \/ Tick \/ StopBtn \/ RemoveAudio

SpecRec == InitRec /\ [][NextRec]_vars

----------------------------------------------------------------------------
(* Claims about the question flow, checked under SpecUI *)

\* the countdown of the question being shown ran for its full duration
OwnCountdownElapsed ==
    \E x \in timers :
        /\ x \notin timers'
        /\ x.kind = "reveal"
        /\ x.entry = entry
        /\ ~x.cancelled

\* the asset fetch of the question being shown failed
OwnFetchFailed ==
    \E t \in tasks :
        /\ t \notin tasks'
        /\ t.kind = "run"
        /\ t.entry = entry
        /\ t.pc = "resumeFail"

\* C1: for every question entered via start, next or restart, showQuizUI
\* becomes true only when that question's own preview countdown has run for
\* its full duration or that question's asset fetch failed; neither speech
\* nor the cancellation of a countdown reveals the answer UI earlier.
\* The source reveals on cancellation too: `showQuizUI = true` follows the
\* `if !Task.isCancelled` of the countdown task unconditionally.
C1_RevealOnlyAfterOwnCountdown ==
    [][ (~showQuizUI /\ showQuizUI') => (OwnCountdownElapsed \/ OwnFetchFailed) ]_vars

\* the run flow of the question being shown gives up after a failed fetch
OwnRunFails(t) ==
    /\ t.kind = "run"
    /\ t.pc = "resumeFail"
    /\ t.entry = entry
    /\ t \notin tasks'

\* C16: if the asset fetch for the current question fails, the orchestrator
\* surfaces the error message, reveals the interactive UI without starting a
\* countdown, no preview is displayed while that question is revealed, and a
\* subsequent next() advances to the following question as normal.
\* The source leaves the preview of an earlier flow open: the flow cancels
\* the countdown that would have closed it and never sets qlURL to nil.
C16_FetchFailureReveals ==
    [][ /\ \A t \in tasks :
              OwnRunFails(t) =>
                  /\ downloadError' = Some("Failed to download image.")
                  /\ showQuizUI'
                  /\ timers' = timers
                  /\ autoCloseTask' = autoCloseTask
                  /\ qlURL' = None
        /\ (lastOp'.name = "next" /\ lastOp' # lastOp /\ downloadError # None
               /\ currentIndex < Len(items) - 1) =>
                  currentIndex' = currentIndex + 1 ]_vars

\* C17: audio synthesized for a question never starts playing once a later
\* question has been entered: a synthesis request still in flight when the
\* question changes (next or restart) is discarded when it completes.
\* speak() of the source plays whatever it fetched.
C17_NoStaleAudio ==
    [][ \A sp \in speeches :
          (sp \notin speeches' /\ audioPlayer' # audioPlayer /\ ~showResults) =>
              sp.entry = entry ]_vars

\* the countdowns that are neither cancelled nor finished
LiveTimers == {x \in timers : ~x.cancelled}

\* C18: in every interleaving of the start, 'See again', 'Next' and
\* 'Restart' actions with asset-fetch completions, at most one uncancelled,
\* unfinished countdown exists at any moment, so a preview is closed only by
\* the countdown that was started together with it and never by a countdown
\* started for an earlier question or an earlier replay.
\* Two flows of the source can both pass `autoCloseTask?.cancel()` before
\* either stores its countdown; the first countdown is then never cancelled.
C18_OneLiveCountdown ==
    /\ [](Cardinality(LiveTimers) <= 1)
    /\ [][ \A x \in timers :
              (x \notin timers' /\ ~x.cancelled /\ qlURL # None /\ qlURL' = None) =>
                  autoCloseTask = Some(x.id) ]_vars

\* the countdown x runs to its end in this step
Elapses(x) ==
    /\ ~x.cancelled
    /\ \A y \in timers' : y.id # x.id

\* a synthesis request ends in this step without any audio being started
SynthesisFails ==
    \E sp \in speeches : sp \notin speeches' /\ audioPlayer' = audioPlayer

\* C19: a speech synthesis failure or a skipped synthesis changes no
\* SessionState field and neither blocks nor delays the reveal: a failing
\* request changes nothing but itself, every uncancelled countdown can
\* elapse whatever the state of the synthesis, and a reveal countdown that
\* elapses reveals the question.
C19_SpeechFailureHarmless ==
    /\ [][ SynthesisFails =>
              UNCHANGED <<vmVars, viewVars, cacheVars, tasks, timers>> ]_vars
    /\ [](\A x \in timers : ~x.cancelled => ENABLED TimerElapsed(x))
    /\ [][ \A x \in timers :
              (Elapses(x) /\ x.kind = "reveal") => showQuizUI' ]_vars

\* a question with a voice is revealed without a preview although its
\* synthesis request failed and no audio ever played
C19_Witness ==
    /\ items # <<>>
    /\ items[currentIndex + 1].voiceID # None
    /\ downloadError = None
    /\ lastOp.name = "start"
    /\ showQuizUI
    /\ qlURL = None
    /\ audioPlayer = None
    /\ speeches = {}
    /\ tasks = {}
    /\ timers = {}

\* the 'See again' button is pressed in this step
ReplayPressed ==
    /\ lastOp'.name = "seeAgain"
    /\ \E t \in tasks' : \A u \in tasks : u.id # t.id

\* the replay flow t takes a step
ReplaySteps(t) ==
    t.kind = "replay" /\ t \notin tasks'

\* C20: the replay action ('See again') on a revealed question displays the
\* current question's asset and starts a new countdown that closes the
\* preview when it elapses; it issues no speech synthesis request, leaves the
\* interactive UI revealed throughout, and leaves every SessionState field
\* (index, score, answered, selection, kind, options, terminal) unchanged.
\* The asset and the revealed UI are those of the question the button was
\* pressed on, for as long as that question is the one being shown.
C20_ReplayKeepsQuestion ==
    /\ [](\A t \in tasks : (t.kind = "replay" /\ t.entry = entry) => showQuizUI)
    /\ [](\A x \in timers : (x.kind = "replay" /\ x.entry = entry) => showQuizUI)
    /\ [][ /\ ReplayPressed =>
                 /\ showQuizUI
                 /\ \E t \in tasks' \ tasks : t.kind = "replay" /\ t.entry = entry
                 /\ UNCHANGED <<vmVars, showQuizUI, speeches, audioPlayer>>
           /\ \A t \in tasks :
                 ReplaySteps(t) =>
                     UNCHANGED <<vmVars, showQuizUI, speeches, audioPlayer>>
           /\ \A t \in tasks :
                 (ReplaySteps(t) /\ t.pc = "gotLocal" /\ t.entry = entry) =>
                     /\ qlURL' = Some(CachedFileURL(items[currentIndex + 1].imageURL))
                     /\ \E x \in timers' \ timers :
                           /\ x.kind = "replay"
                           /\ ~x.cancelled
                           /\ autoCloseTask' = Some(x.id)
           /\ \A x \in timers :
                 (Elapses(x) /\ x.kind = "replay") =>
                     /\ qlURL' = None
                     /\ UNCHANGED <<vmVars, showQuizUI, speeches, audioPlayer>> ]_vars

\* the replayed preview of an answered, revealed question is displayed and
\* its countdown is running
C20_Witness ==
    /\ lastOp.name = "seeAgain"
    /\ showQuizUI
    /\ hasAnswered
    /\ qlURL # None
    /\ speeches = {}
    /\ \E x \in timers :
          x.kind = "replay" /\ x.entry = entry /\ ~x.cancelled

----------------------------------------------------------------------------
(* Claims about the session state machine, checked under Spec and SpecWide *)

\* C2: select(option) is idempotent per question: once the current question
\* is answered, a further select with any option leaves score, answered,
\* selectedOption and the correctness flag unchanged.
C2_SelectIdempotent ==
    [][ (lastOp'.name = "select" /\ hasAnswered) =>
            /\ score' = score
            /\ hasAnswered' = hasAnswered
            /\ selectedOption' = selectedOption
            /\ isCorrect' = isCorrect ]_vars

\* a select with another option ran on an already answered question
C2_Witness ==
    /\ lastOp.name = "select"
    /\ lastOp.phase = "Active"
    /\ hasAnswered
    /\ selectedOption # lastOp.arg

\* C3: the first select(option) on an unanswered question sets answered,
\* records option as selectedOption, adds 1 to score iff option is the correct
\* value of the current record for the current kind, and leaves currentIndex,
\* kind, options, the record sequence and the terminal flag unchanged.
C3_FirstSelect ==
    [][ (lastOp'.name = "select" /\ ~hasAnswered /\ items # <<>>) =>
            LET o == lastOp'.arg[1]
                right == (o = CorrectOf(questionType, items, currentIndex))
            IN /\ hasAnswered'
               /\ selectedOption' = Some(o)
               /\ score' = IF right THEN score + 1 ELSE score
               /\ UNCHANGED <<currentIndex, questionType, options, items, showResults>> ]_vars

\* the second question was answered right after the first was answered wrong
C3_Witness ==
    /\ lastOp.name = "select"
    /\ selectedOption = lastOp.arg
    /\ currentIndex = 1
    /\ isCorrect
    /\ score = 1

\* C4: next() at the last index sets the session to Complete without
\* changing currentIndex or score, and a further next() while Complete
\* changes no field of the session state.
C4_NextAtLast ==
    [][ (lastOp'.name = "next" /\ items # <<>> /\ currentIndex = Len(items) - 1) =>
            /\ showResults'
            /\ currentIndex' = currentIndex
            /\ score' = score
            /\ (showResults => UNCHANGED vmVars) ]_vars

\* next ran while the session was Complete, on an answered last question
C4_Witness ==
    /\ lastOp.name = "next"
    /\ lastOp.phase = "Complete"
    /\ showResults
    /\ hasAnswered
    /\ Len(items) >= 2

C6_IndexInRange ==
    (items # <<>> /\ ~showResults) => (0 <= currentIndex /\ currentIndex < Len(items))

\* next reached the last of several records of a session that is not Complete
C6_Witness ==
    /\ lastOp.name = "next"
    /\ ~showResults
    /\ Len(items) >= 2
    /\ currentIndex = Len(items) - 1

\* C7: after a successful load the option set has exactly 3 entries and
\* contains the correct value of the current record for the current kind.
C7_OptionsHoldCorrect ==
    items # <<>> =>
        /\ Len(options) = 3
        /\ CorrectOf(questionType, items, currentIndex) \in Range(options)

\* options regenerated by next that needed the padding
C7_Witness ==
    /\ items # <<>>
    /\ lastOp.name = "next"
    /\ currentIndex >= 1
    /\ Cardinality(Range(options)) < 3

\* C8: answered implies selectedOption is set.
C8_AnsweredHasSelection == hasAnswered => selectedOption # None

\* an answered question, the answer being none of the displayed options
C8_Witness ==
    /\ hasAnswered
    /\ lastOp.name = "select"
    /\ selectedOption = Some("Someone else")

\* C9: restart() from any state sets score and currentIndex to 0, clears
\* answered, selectedOption, the correctness flag and the terminal flag,
\* regenerates the options for record 0 and keeps the record sequence.
C9_Restart ==
    [][ lastOp'.name = "restart" =>
            /\ score' = 0
            /\ currentIndex' = 0
            /\ ~hasAnswered'
            /\ selectedOption' = None
            /\ ~isCorrect'
            /\ ~showResults'
            /\ items' = items
            /\ (items # <<>> =>
                   options' \in BuildOptions(questionType', items[1], items)) ]_vars

\* restart ran on a Complete session of four records
C9_Witness ==
    /\ lastOp.name = "restart"
    /\ lastOp.phase = "Complete"
    /\ Len(items) = 4
    /\ ~showResults
    /\ score = 0

----------------------------------------------------------------------------
(* Claims about buildOptions, checked under SpecGen *)

\* no fallback string is left that is neither the correct value nor an option
FallbackExhausted(opts, correct) ==
    \A f \in Range(Fallback) : f = correct \/ f \in Range(opts)

\* C10: for every non-empty pool, current record, kind and outcome of the
\* random choices, generate returns exactly 3 options, the correct value
\* occurs exactly once, and no entry is duplicated, except that "Unknown"
\* may repeat when the fallback list has been exhausted.
C10_ThreeDistinctOptions ==
    genOut # None =>
        LET o == genOut[1]
            correct == FieldOf(genIn[1].type, genIn[1].current)
        IN /\ Len(o) = 3
           /\ Cardinality({i \in 1..Len(o) : o[i] = correct}) = 1
           /\ \A i, j \in 1..Len(o) :
                 (i # j /\ o[i] = o[j]) =>
                     (o[i] = "Unknown" /\ FallbackExhausted(o, correct))

\* the inputs and results of the buildOptions call
GenCorrect == FieldOf(genIn[1].type, genIn[1].current)
GenPool == UniquePool(genIn[1].type, genIn[1].current, genIn[1].all)

\* C11: when fewer than 2 candidate decoys exist among the other records,
\* the backfill skips every fallback string that equals the correct value or
\* is already chosen, so the decoy count reaches 2 whenever the fallback
\* list still holds an admissible string; the padding with "Unknown" (a
\* decoy count below 2) happens only when the fallback list is exhausted.
\* The loop of the source ends at its first inadmissible pick instead.
C11_BackfillSkipsCollisions ==
    (genOut # None /\ Cardinality(GenPool) < DecoyCount) =>
        \/ Len(genDecoys[1]) = DecoyCount
        \/ \A f \in Range(Fallback) : f = GenCorrect \/ f \in Range(genDecoys[1])

\* the entries of the options other than one occurrence of the correct value
OtherOptions(o, correct) ==
    LET at == CHOOSE i \in 1..Len(o) : o[i] = correct
    IN [i \in 1..(Len(o) - 1) |-> IF i < at THEN o[i] ELSE o[i + 1]]

SingleRecordNoFallback ==
    /\ genOut # None
    /\ Len(genIn[1].all) = 1
    /\ GenCorrect \notin Range(Fallback)

\* C12 as stated: for a single-record pool whose correct value is none of
\* the fallback strings, the options are exactly the correct value,
\* "Not sure" and "I don't remember", in some order, for every outcome of
\* the random choices.
C12_Original ==
    SingleRecordNoFallback =>
        /\ Len(genOut[1]) = 3
        /\ Range(genOut[1]) = {GenCorrect, "Not sure", "I don't remember"}

\* C12 as amended: for a single-record pool whose correct value is none of
\* the fallback strings, the options are the correct value and two strings
\* of the fallback list ("Unknown" included), which differ from each other
\* or are both "Unknown", in some order, for every outcome of the random
\* choices.
C12_SingleRecordOptions ==
    SingleRecordNoFallback =>
        /\ Len(genOut[1]) = 3
        /\ GenCorrect \in Range(genOut[1])
        /\ LET rest == OtherOptions(genOut[1], GenCorrect)
           IN /\ Range(rest) \subseteq Range(Fallback)
              /\ rest[1] # rest[2] \/ (rest[1] = "Unknown" /\ rest[2] = "Unknown")

C12_Witness ==
    /\ SingleRecordNoFallback
    /\ GenCorrect = "Alice"
    /\ Range(genOut[1]) = {"Alice", "Unknown", "Not sure"}

\* C13: when the other records hold at least 2 distinct non-empty values
\* different from the correct value for the asked field, both decoys are
\* drawn from exactly those values, so the 3 options are pairwise distinct
\* and consist of the correct value plus 2 such values.
C13_DecoysFromPool ==
    (genOut # None /\ Cardinality(GenPool) >= 2) =>
        /\ Len(genDecoys[1]) = 2
        /\ Range(genDecoys[1]) \subseteq GenPool
        /\ Len(genOut[1]) = 3
        /\ \A i, j \in 1..3 : i # j => genOut[1][i] # genOut[1][j]
        /\ Range(genOut[1]) = {GenCorrect} \cup Range(genDecoys[1])

\* current "Alice" with the others "Bob", "Carol", "Bob", "Unknown"
C13_Witness ==
    /\ genOut # None
    /\ genIn[1].all = Mapped(ScenarioTable)
    /\ genIn[1].type = "person"
    /\ GenCorrect = "Alice"
    /\ GenPool = {"Bob", "Carol", "Unknown"}
    /\ Range(genOut[1]) = {"Alice", "Carol", "Unknown"}

----------------------------------------------------------------------------
(* Claims about the asset cache, checked under SpecCache *)

\* the call t takes its first step (up to the download, or to its return)
Begins(t) == t.pc = "begin" /\ t \notin tasks'

\* the call t as it is after the step
After(t) == CHOOSE t2 \in tasks' : t2.id = t.id

\* C14: two sequential ensure calls with the same remote identity within
\* one session return the same resolved local handle and cause exactly one
\* network fetch: a call that begins after a call for the same identity has
\* returned a handle returns that handle and fetches nothing.
C14_SecondEnsure ==
    [][ \A t \in tasks :
          (Begins(t) /\ items[currentIndex + 1].imageURL \in DOMAIN resolved) =>
              /\ After(t).pc = "gotLocal"
              /\ After(t).local = Some(resolved[items[currentIndex + 1].imageURL])
              /\ ~After(t).fetched ]_vars

\* a call returns the handle from localFileCache, where an earlier call that
\* fetched it has put it
C14_Witness ==
    \E t \in tasks :
        /\ t.kind = "ensure"
        /\ t.pc = "gotLocal"
        /\ t.hit
        /\ ~t.fetched
        /\ t.remote = Some("https://cdn/a/p2.heic")
        /\ "p2.heic" \in files
        /\ t.local = Some(resolved["https://cdn/a/p2.heic"])

\* C15: concurrent ensure requests for the same not-yet-cached identity (a
\* second request issued before the first one's download completes) result
\* in a single network fetch for that identity.
\* The source keeps no record of the downloads in flight.
C15_SingleFetchInFlight ==
    \A t1, t2 \in tasks :
        (t1.pc = "download" /\ t2.pc = "download" /\ t1.remote = t2.remote) => t1 = t2

----------------------------------------------------------------------------
(* Claims about the cache directory, checked under SpecStore *)

\* the call t returns nil to its caller in this step
EnsureFails(t) ==
    /\ t.pc = "resumeFail"
    /\ \A u \in tasks' : u.id # t.id

\* the download of the call t ends in this step with an error thrown
DownloadFails(t) ==
    /\ t.pc = "download"
    /\ t \notin tasks'
    /\ After(t).pc = "resumeFail"

\* C23: ensure with an identity that does not parse as a URL fails without
\* attempting a download, and ensure whose download fails returns a
\* failure; in both cases no entry is added to the identity-to-handle map
\* and no existing file at the destination is removed, so a later ensure for
\* the same identity attempts the fetch again.
\* ensureDownloaded of the source removes the file at the destination before
\* it moves the downloaded file there; when the move throws, the file is gone.
C23_FailedEnsure ==
    [][ /\ \A t \in tasks :
              (Begins(t) /\ ~URLParses(items[currentIndex + 1].imageURL)) =>
                  /\ After(t).pc = "resumeFail"
                  /\ ~After(t).fetched
        /\ \A t \in tasks :
              (Begins(t) /\ items[currentIndex + 1].imageURL \notin DOMAIN localFileCache) =>
                  After(t).pc \in {"resumeFail", "resumeOk", "download"}
        /\ \A t \in tasks :
              (Begins(t) \/ DownloadFails(t) \/ EnsureFails(t)) =>
                  /\ localFileCache' = localFileCache
                  /\ files \subseteq files'
                  /\ emptyFiles \subseteq emptyFiles' ]_vars

\* C25: if the backing file of an identity already resolved in this session
\* is removed or truncated to zero size, the next ensure for that identity
\* re-fetches the asset and returns a handle to an existing non-empty file:
\* a call that returns a handle without suspending returns one whose file
\* exists with a non-zero size.
\* localFileURLForCurrentImage of the source returns the entry of
\* localFileCache without looking at the file.
C25_HandleHasFile ==
    [][ \A t \in tasks :
          (Begins(t) /\ After(t).pc = "gotLocal") =>
              After(t).local[1] \in files ]_vars

\* the call t reaches RemoteCache.ensureDownloaded with a url that parses
CallsEnsureDownloaded(t) ==
    /\ Begins(t)
    /\ items # <<>>
    /\ items[currentIndex + 1].imageURL \notin DOMAIN localFileCache
    /\ URLParses(items[currentIndex + 1].imageURL)

\* the download of the call t ends in this step with the file stored
DownloadStores(t) ==
    /\ t.pc = "download"
    /\ t \notin tasks'
    /\ After(t).pc = "resumeOk"

\* C28: ensure returns the existing local file without any network fetch if
\* and only if a file with non-zero size exists at the path derived from the
\* identity; a missing or zero-size file triggers a download whose result
\* replaces the file at the destination path, which is then returned.
\* (ensure is RemoteCache.ensureDownloaded here.)
C28_FetchIffNoFile ==
    [][ /\ \A t \in tasks :
              CallsEnsureDownloaded(t) =>
                  LET dest == CachedFileURL(items[currentIndex + 1].imageURL)
                  IN IF dest \in files
                     THEN /\ After(t).pc = "resumeOk"
                          /\ After(t).local = Some(dest)
                          /\ ~After(t).fetched
                          /\ UNCHANGED <<files, emptyFiles>>
                     ELSE /\ After(t).pc = "download"
                          /\ After(t).fetched
        /\ \A t \in tasks :
              DownloadStores(t) =>
                  LET dest == CachedFileURL(t.remote[1])
                  IN /\ dest \in files'
                     /\ dest \notin emptyFiles'
                     /\ After(t).local = Some(dest) ]_vars

\* a call found a zero-size file at the destination and is downloading
C28_Witness ==
    /\ emptyFiles = {"p1.heic"}
    /\ "p1.heic" \notin files
    /\ \E t \in tasks :
          /\ t.pc = "download"
          /\ t.fetched
          /\ t.remote = Some("https://cdn/a/p1.heic")

----------------------------------------------------------------------------
(* Claims about the launch, checked under SpecLoad *)

\* the positions of the eligible rows of photos: those whose image url is
\* not empty once the white space around it is removed
Eligible(photos) == {i \in 1..Len(photos) : Trim(photos[i].image_url) # ""}

\* the value a text column of a row is given in its record
Normalized(text) == IF Trim(text) = "" THEN "Unknown" ELSE Trim(text)

\* the load of this step, and the rows it was given
Loads == lastOp'.name = "load" /\ items = <<>>
Loaded == lastOp'.arg[1]

\* C21: after a successful load, the selected sequence holds between 1 and 7
\* records (min(7, number of eligible records)), pairwise distinct and all
\* drawn from the loaded eligible records; every selected record has a
\* non-empty asset URL and non-empty personName, location and event (empty
\* values replaced by "Unknown"); index is 0, score is 0, flags are cleared
\* and options are generated for record 0.
C21_LoadSelects ==
    [][ (Loads /\ Eligible(Loaded) # {}) =>
          /\ Len(items') = Min(7, Cardinality(Eligible(Loaded)))
          /\ Len(items') \in 1..7
          /\ \A i, j \in 1..Len(items') : i # j => items'[i].id # items'[j].id
          /\ \A i \in 1..Len(items') :
                \E j \in Eligible(Loaded) :
                   /\ items'[i].id = Loaded[j].id
                   /\ items'[i].imageURL = Trim(Loaded[j].image_url)
                   /\ items'[i].personName = Normalized(Loaded[j].person_name)
                   /\ items'[i].location = Normalized(OrEmpty(Loaded[j].location))
                   /\ items'[i].event = Normalized(OrEmpty(Loaded[j].event))
          /\ \A i \in 1..Len(items') :
                /\ items'[i].imageURL # ""
                /\ items'[i].personName # ""
                /\ items'[i].location # ""
                /\ items'[i].event # ""
          /\ currentIndex' = 0
          /\ score' = 0
          /\ ~hasAnswered'
          /\ selectedOption' = None
          /\ ~isCorrect'
          /\ ~showResults'
          /\ options' \in BuildOptions(questionType', items'[1], items') ]_vars

\* seven of the eight eligible rows of a nine-row result are selected, one
\* of them with "Unknown" in place of its empty name
C21_Witness ==
    /\ lastOp.name = "load"
    /\ Cardinality(Eligible(lastOp.arg[1])) = 8
    /\ Len(items) = 7
    /\ \E i \in 1..Len(items) : items[i].personName = "Unknown"
    /\ currentIndex = 0

\* C22: load fails with EmptyDataset when no eligible record remains after
\* filtering (no records returned, or all with an empty asset URL), and in
\* that case leaves every SessionState field unchanged, so the session stays
\* NotLoaded and cannot be started.
C22_EmptyLoadFails ==
    /\ [][ (Loads /\ Eligible(Loaded) = {}) =>
              /\ fetchError' # None
              /\ UNCHANGED vmVars
              /\ Phase' = "NotLoaded" ]_vars
    /\ [](Phase = "NotLoaded" => ~ENABLED StartBtn)

\* a result whose only row has a blank image url was loaded
C22_Witness ==
    /\ lastOp.name = "load"
    /\ Len(lastOp.arg[1]) = 1
    /\ Eligible(lastOp.arg[1]) = {}
    /\ fetchError # None
    /\ items = <<>>

----------------------------------------------------------------------------
(* Claims about the speech synthesis, checked under SpecTts *)

\* the endpoint answered the call with a 2xx status
Answered2xx ==
    /\ genIn[1].answer.kind = "http"
    /\ genIn[1].answer.status \in 200..299

\* C24: synthesize returns the audio payload if and only if the speech
\* endpoint answers with a 2xx status; any other status or a transport error
\* yields a failure and no playback; when the API credential is empty or no
\* voice id is available, no request is sent and nothing is played.
C24_PayloadIff2xx ==
    genOut # None =>
        /\ genOut[1].requested => (genOut[1].data # None <=> Answered2xx)
        /\ genOut[1].data = None => ~genOut[1].played
        /\ (genIn[1].keyIsEmpty \/ genIn[1].voice = None) =>
              /\ ~genOut[1].requested
              /\ genOut[1].data = None
              /\ ~genOut[1].played

\* a request was sent, the endpoint answered 404, and nothing was played
C24_Witness ==
    /\ genOut # None
    /\ genOut[1].requested
    /\ genIn[1].answer = [kind |-> "http", status |-> 404]
    /\ genOut[1].data = None
    /\ ~genOut[1].played

----------------------------------------------------------------------------
(* Claims about progress, checked under FairSpecUI *)

\* a question has been entered and its quiz is not revealed yet
QuestionHidden == didStart /\ ~showResults /\ ~showQuizUI

\* C26: under fairness (every fetch and synthesis call eventually returns,
\* every countdown eventually ends), every question entered via start, next
\* or restart eventually becomes revealed, whatever the outcomes of the asset
\* fetch and of the speech synthesis.
C26_EventuallyRevealed == QuestionHidden ~> QuizVisible

\* a question entered by next is revealed after its fetch failed
C26_Witness ==
    /\ QuizVisible
    /\ lastOp.name = "next"
    /\ downloadError # None
    /\ tasks = {}

----------------------------------------------------------------------------
(* Claims about overlapping flows over two questions, checked under SpecPair *)

\* the flow t, its file url in hand, presents the preview in this step
Presents(t) ==
    /\ t.pc = "gotLocal"
    /\ t.kind \in {"run", "replay"}
    /\ \A u \in tasks' : u.id # t.id

\* a preview is put on display, a countdown or a speech request is started
PreviewStarts ==
    \/ qlURL' # None /\ qlURL' # qlURL
    \/ \E x \in timers' : \A y \in timers : y.id # x.id
    \/ \E sp \in speeches' : sp \notin speeches

\* C27: a preview is displayed, and the speech request and the countdown
\* are started, only after the asset fetch for the current question has
\* completed successfully, and the displayed handle is the one that fetch
\* returned for the current question's asset.
\* A replay of the source that is overtaken by Next displays the file it
\* fetched for the question before.
C27_PreviewAfterFetch ==
    [][ PreviewStarts =>
          \E t \in tasks :
              /\ Presents(t)
              /\ t.entry = entry
              /\ t.remote = Some(items[currentIndex + 1].imageURL)
              /\ qlURL' = t.local ]_vars

----------------------------------------------------------------------------
(* Claims about the course of a session, checked under Spec *)

\* C29: the session follows NotLoaded -> Active(0) -> ... -> Active(last) ->
\* Complete: currentIndex changes only by +1 through next() or to 0 through
\* restart() or load(); the terminal flag becomes true only through next()
\* invoked at the last index and becomes false again only through restart()
\* or load().
C29_SessionCourse ==
    [][ /\ currentIndex' # currentIndex =>
              \/ lastOp'.name = "next" /\ currentIndex' = currentIndex + 1
              \/ lastOp'.name \in {"restart", "load"} /\ currentIndex' = 0
        /\ (~showResults /\ showResults') =>
              /\ lastOp'.name = "next"
              /\ Phase = "Active"
              /\ currentIndex = Len(items) - 1
        /\ (showResults /\ ~showResults') => lastOp'.name \in {"restart", "load"}
        /\ (Phase = "NotLoaded" /\ Phase' # "NotLoaded") =>
              /\ Phase' = "Active"
              /\ currentIndex' = 0
        /\ (Phase = "Complete" /\ Phase' # "Complete") =>
              /\ Phase' = "Active"
              /\ currentIndex' = 0
        /\ Phase' = "NotLoaded" => Phase = "NotLoaded" ]_vars

\* a session of three questions that went through all of them to Complete
\* is back at its first question after restart
C29_Witness ==
    /\ Len(items) = 3
    /\ lastOp = Op("restart", None, "Complete")
    /\ Phase = "Active"
    /\ currentIndex = 0

----------------------------------------------------------------------------
(* Claims about the results screen, checked under SpecUI *)

\* C30: once the session is Complete (next() invoked at the last index), no
\* asset preview is displayed and no speech synthesis is requested until
\* restart() is invoked.
\* The 'See Score' button of the source runs the flow of a question all the
\* same: it previews the last asset again and requests its prompt.
C30_QuietWhenComplete ==
    [][ (showResults /\ showResults') =>
          /\ \A t \in tasks : ~Presents(t)
          /\ ~(qlURL' # None /\ qlURL' # qlURL)
          /\ \A sp \in speeches' : sp \in speeches ]_vars

----------------------------------------------------------------------------
(* Claims about the view model after the last question, checked under Spec *)

\* C31: while the session is Complete, select(option) changes neither the
\* score nor any other SessionState field, including when next() reached
\* Complete from an unanswered last question.
\* select of the source tests hasAnswered only, and next does not require
\* an answer: a Complete session with an unanswered last question is scored.
C31_SelectWhenComplete ==
    [][ (Phase = "Complete" /\ lastOp'.name = "select") => UNCHANGED vmVars ]_vars

\* C32: no operation reads the current record while the record sequence is
\* empty: in the NotLoaded state select(), next(), restart() and the
\* current-asset lookup all complete without an out-of-range access.
\* select of the source evaluates correctAnswer, i.e. items[currentIndex],
\* without a hasData guard.
C32_NoReadWhenEmpty ==
    [][ Phase = "NotLoaded" => ~crashed' ]_vars

----------------------------------------------------------------------------
(* Invariants of the view model, checked under Spec *)

\* a step other than restart and load raises the score by at most 1, and
\* only by answering the question at the current index for the first time
ScoreStep ==
    lastOp'.name \notin {"restart", "load"} =>
        /\ score' >= score
        /\ score' <= score + 1
        /\ (score' > score) => (~hasAnswered /\ hasAnswered' /\ currentIndex' = currentIndex)

\* C33 as stated: in every reachable state 0 <= score <= currentIndex + 1
\* <= len(records); between two restarts the score increases by at most 1
\* per question index and never decreases.
C33_Original ==
    /\ [](0 <= score /\ score <= currentIndex + 1 /\ currentIndex + 1 <= Len(items))
    /\ [][ScoreStep]_vars

\* C33 as amended: in every reachable state with a non-empty record
\* sequence 0 <= score <= currentIndex + 1 <= len(records); between two
\* restarts the score increases by at most 1 per question index and never
\* decreases.
C33_ScoreBounded ==
    /\ [](items # <<>> =>
             (0 <= score /\ score <= currentIndex + 1 /\ currentIndex + 1 <= Len(items)))
    /\ [][ScoreStep]_vars

\* every one of three questions was answered correctly
C33_Witness ==
    /\ Len(items) = 3
    /\ currentIndex = 2
    /\ score = 3
    /\ hasAnswered

\* C34: in every reachable state (of the running process) the correctness
\* flag is true only if answered is true and selectedOption equals the
\* correct value of the current record for the current kind; whenever
\* answered is false, selectedOption is unset and the correctness flag is
\* false.
C34_FlagsConsistent ==
    ~crashed =>
        /\ isCorrect =>
              /\ hasAnswered
              /\ items # <<>>
              /\ selectedOption = Some(CorrectOf(questionType, items, currentIndex))
        /\ ~hasAnswered => (selectedOption = None /\ ~isCorrect)

\* the second question, about an event, is answered correctly
C34_Witness ==
    /\ ~crashed
    /\ currentIndex = 1
    /\ questionType = "event"
    /\ hasAnswered
    /\ isCorrect
    /\ lastOp.name = "select"

----------------------------------------------------------------------------
(* Claims about the names of the cached files, checked under SpecCache *)

\* C35: ensure never returns for identity A a file that was downloaded from
\* a different identity B: distinct remote identities resolve to distinct
\* local files, including identities that share the same final path segment.
\* cachedFileURL of the source names the file by lastPathComponent alone.
C35_DistinctFiles ==
    /\ \A a, b \in DOMAIN resolved : a # b => resolved[a] # resolved[b]
    /\ \A t \in tasks :
          (t.pc = "gotLocal" /\ ~t.fetched /\ ~t.hit) =>
              \A b \in DOMAIN resolved : resolved[b] = t.local[1] => b = t.remote[1]

----------------------------------------------------------------------------
(* Claims about the download error message, checked under SpecUI *)

\* the asset resolution of the flow t succeeds in this step
ResolvesNow(t) ==
    /\ t.pc \in {"begin", "resumeOk"}
    /\ \E u \in tasks' : u.id = t.id /\ u.pc = "gotLocal"

\* C36: the download error message is shown on a revealed question only if
\* that question's own most recent asset resolution failed: a successful
\* resolution for the current question, whether by download or from the
\* in-memory identity map, clears an error left by an earlier question.
\* localFileURLForCurrentImage of the source returns the entry of its map
\* before the lines that assign downloadError.
C36_SuccessClearsError ==
    [][ \A t \in tasks :
          (ResolvesNow(t) /\ t.entry = entry) => downloadError' = None ]_vars

\* C37: if the asset fetch for a question fails, no speech synthesis
\* request is issued for that question: the flow whose fetch fails ends
\* without a request, and a request is only ever added by the flow of its
\* question, its file url in hand.
C37_NoSpeechAfterFailedFetch ==
    /\ [][ \A t \in tasks :
              (EnsureFails(t) /\ t.kind = "run") =>
                  /\ speeches' = speeches
                  /\ \A sp \in speeches : sp.entry # t.entry
                  /\ \A u \in tasks' : u.kind = "run" => u.entry # t.entry ]_vars
    /\ [][ \A sp \in speeches' :
              sp \notin speeches =>
                  \E t \in tasks : Presents(t) /\ t.kind = "run" /\ t.entry = sp.entry ]_vars

\* the question of a record with a voice is revealed after its fetch
\* failed, and no request was made and no audio plays
C37_Witness ==
    /\ QuizVisible
    /\ lastOp.name = "start"
    /\ items[currentIndex + 1].voiceID # None
    /\ downloadError # None
    /\ tasks = {}
    /\ speeches = {}
    /\ audioPlayer = None

----------------------------------------------------------------------------
(* Claims about the voice recorder, checked under SpecRec *)

\* C38: a recording never lasts beyond maxDuration: when the elapsed-seconds
\* counter reaches maxDuration the recorder is stopped, i.e. isRecording
\* becomes false, the interval timer is cleared and the recorded blob is
\* delivered through onAudioRecorded.
\* The interval callback of the source calls the stopRecording of the render
\* in which Start was pressed, whose isRecording is false: it does nothing.
C38_StopsAtMaxDuration ==
    /\ [](recorder.media = "recording" => recorder.elapsed <= recorder.maxDuration)
    /\ [][ (recorder.isRecording /\ recorder'.recordingTime >= recorder.maxDuration) =>
              /\ ~recorder'.isRecording
              /\ ~recorder'.timerRef
              /\ recorder'.media = "inactive"
              /\ recorder'.delivered ]_vars

----------------------------------------------------------------------------
(* Claims about the download indicator, checked under SpecConc *)

\* the call t is between `isDownloadingImage = true` and the assignment of
\* false that follows its download
Downloading(t) == t.pc \in {"download", "resumeOk", "resumeFail"}

\* C39: isDownloadingImage is true in every state in which at least one
\* asset download is in flight and false in every state in which none is,
\* including when two downloads overlap.
\* The flag of the source is a boolean that each call sets and clears on
\* its own: the call that ends first clears it for the other one as well.
C39_IndicatorMatchesDownloads ==
    isDownloadingImage <=> (\E t \in tasks : Downloading(t))

====
